---- MODULE Spec2Model ----
(***************************************************************************)
(* A model of the statistical core of nba-proj: the belief store updated   *)
(* by src/core/priors.py, the Monte Carlo simulator of                     *)
(* src/core/simulator.py, the pricing engine of src/core/pricing.py and    *)
(* the wager-line validator of src/core/odds.py.                           *)
(*                                                                         *)
(* Numbers are scaled integers: minutes and stat totals are whole units,   *)
(* multipliers are hundredths, decimal odds are hundredths, probabilities  *)
(* are millionths, sigma is counted in units of 1e-8.                      *)
(***************************************************************************)
EXTENDS Integers, Sequences, FiniteSets, TLC

VARIABLES
    \* ---- belief store and box-score files (priors.py, fetch_daily.py)
    boxFiles,     \* file slot -> table written as box_<date>.csv, or NoFile
    priorsCsv,    \* rows of priors_players.csv (<<>>: the file does not exist)
    cycles,       \* number of update_priors calls made so far
    newSince,     \* file slots written since the previous update_priors call
    lastOp,       \* the operation that produced the current state
    \* ---- one pricing run, python -m src.core.pricing (pricing.py)
    predsCsv,     \* runs/<date>/predictions.csv: [exists, rows]
    oddsCsv,      \* the odds CSV given with --odds: [columns, rows]
    preds,        \* the frame _load_predictions returned
    odds,         \* the frame _load_odds returned
    edges,        \* the frame build_edges returned
    edgesCsv,     \* runs/<date>/edges.csv: [exists, rows]
    pricingPc,    \* where main is: start, preds, odds, edges, written, failed
    \* ---- simulator runs, python -m src.core.simulator (simulator.py)
    simPri,       \* data/parquet/priors/priors_players.csv: [exists, rows]
    simOvr,       \* data/minutes_overrides.csv: [exists, columns, rows]
    simDate,      \* --date of the runs
    hashKey,      \* per process: the key its interpreter hashes strings with
    simPc,        \* per process: idle, start, loop, done, failed
    rng,          \* per process: the state of its generator
    paceShock,    \* per process: pace_shock (hundredths)
    minutesDraws, \* per process: the minutes_draws cache, as (pid, minutes) pairs
    rowIdx,       \* per process: the belief row the loop is at
    outRows,      \* per process: out_rows
    predictionsCsv, \* runs/<date>/predictions.csv: [exists, rows]
    oddsDf,       \* the table handed to validate_odds: [columns, rows]
    validatePc,   \* validate_odds: idle, call, returned, raised
    validateOut,  \* what validate_odds returned or raised
    pipePc,       \* per pipeline run: the statement it is at
    pipePri,      \* per pipeline run: pri, the store as update_priors read it
    runsDir,      \* runs/<date>/: [predictions, edges], a file each
    store0,       \* the belief store before the two pipeline runs
    callFn,       \* the function of priors.py called on its own
    callArg,      \* its argument
    callRet,      \* [done, value]: what it returned
    provider,     \* the provider whose fetch is running: none, bref, json
    maxRetries,   \* BrefProvider.max_retries
    attempt,      \* the loop variable of the retry loop
    httpLog,      \* the status of every response so far, Transport for an exception
    lastExc,      \* BrefProvider._get: last_exc
    httpPc,       \* idle, loop, returned, raised
    httpOut       \* what the fetch returned or raised

varsPriors == <<boxFiles, priorsCsv, cycles, newSince, lastOp>>

varsPricing == <<predsCsv, oddsCsv, preds, odds, edges, edgesCsv, pricingPc>>

varsSim == <<simPri, simOvr, simDate, hashKey, simPc, rng, paceShock,
             minutesDraws, rowIdx, outRows, predictionsCsv>>

varsValidate == <<oddsDf, validatePc, validateOut>>

varsPipe == <<pipePc, pipePri, runsDir, store0>>

varsCall == <<callFn, callArg, callRet>>

varsHttp == <<provider, maxRetries, attempt, httpLog, lastExc, httpPc, httpOut>>

vars == <<boxFiles, priorsCsv, cycles, newSince, lastOp,
          predsCsv, oddsCsv, preds, odds, edges, edgesCsv, pricingPc,
          simPri, simOvr, simDate, hashKey, simPc, rng, paceShock,
          minutesDraws, rowIdx, outRows, predictionsCsv,
          oddsDf, validatePc, validateOut,
          pipePc, pipePri, runsDir, store0,
          callFn, callArg, callRet,
          provider, maxRetries, attempt, httpLog, lastExc, httpPc, httpOut>>

----------------------------------------------------------------------------
(* Bounds of the model.                                                    *)

\* number of update_priors calls in one behaviour
MaxCycles == 2
\* --draws of a simulator run
Draws == 2
\* the size the seed space 2**32 of the generator is cut to
SeedSpace == 16

----------------------------------------------------------------------------
(* Generic helpers.                                                        *)

\* pandas' missing value in a numeric column
NaN == -2000000000

NoFile == [exists |-> FALSE, rows |-> <<>>]

RECURSIVE SumSeq(_)
SumSeq(s) == IF s = <<>> THEN 0 ELSE Head(s) + SumSeq(Tail(s))

Column(tbl, f) == [i \in 1..Len(tbl) |-> tbl[i][f]]

----------------------------------------------------------------------------
(* src/core/priors.py                                                      *)

PRIOR_ALPHA == 5
PRIOR_BETA == 120

\* alpha = rate * 200 pseudo-minutes: 0.45*200, 0.12*200, 0.09*200
PRIOR_BY_STAT ==
    [PTS |-> [alpha |-> 90, beta |-> 200],
     REB |-> [alpha |-> 24, beta |-> 200],
     AST |-> [alpha |-> 18, beta |-> 200]]

\* multipliers in hundredths
\* the table with the sixth and the bench entries exchanged
RoleWeightsSwapped ==
    [starter |-> [min_mult |-> 100, rate_mult |-> 100],
     sixth   |-> [min_mult |-> 70,  rate_mult |-> 98],
     bench   |-> [min_mult |-> 88,  rate_mult |-> 102]]

ROLE_WEIGHTS ==
    [starter |-> [min_mult |-> 100, rate_mult |-> 100],
     sixth   |-> [min_mult |-> 88,  rate_mult |-> 102],
     bench   |-> [min_mult |-> 70,  rate_mult |-> 98]]

DEFAULT_ROLE == "bench"

\* a missing role tag (NaN in the role column, or no role column at all)
NoRole == "NaN"

\* the stats update_priors loops over, in its order
Stats == <<"PTS", "REB", "AST">>

\* player ids, in the ascending order groupby("player_id") yields them
PlayerOrder == <<"P_A", "P_B">>
Players == {PlayerOrder[i] : i \in 1..Len(PlayerOrder)}

\* string order of the role tags (Series.mode() returns its modes sorted)
RoleRank(r) ==
    CASE r = "bench" -> 1
      [] r = "coach" -> 2
      [] r = "sixth" -> 3
      [] r = "starter" -> 4
      [] OTHER -> 5

DropNa(series) == SelectSeq(series, LAMBDA r : r # NoRole)

\* the whole series taken for its last n entries
WholeSeries(series, n) == series

\* series.tail(n)
TailSeq(series, n) ==
    IF Len(series) <= n THEN series
    ELSE SubSeq(series, Len(series) - n + 1, Len(series))

CountOf(series, r) == Cardinality({i \in 1..Len(series) : series[i] = r})

\* Series.mode().iloc[0]: the most frequent value, the smallest one on a tie
ModeOf(series) ==
    LET vals == {series[i] : i \in 1..Len(series)}
        top  == {r \in vals : \A q \in vals : CountOf(series, q) <= CountOf(series, r)}
    IN  CHOOSE r \in top : \A q \in top : RoleRank(r) <= RoleRank(q)

RoleWindow == 5

_resolve_role(series) ==
    IF series = <<>> THEN DEFAULT_ROLE
    ELSE LET window_roles == DropNa(TailSeq(series, RoleWindow))
         IN  IF window_roles = <<>>
             THEN LET all  == DropNa(series)
                      last == IF all # <<>> THEN all[Len(all)] ELSE DEFAULT_ROLE
                  IN  IF last \in DOMAIN ROLE_WEIGHTS THEN last ELSE DEFAULT_ROLE
             ELSE LET role == ModeOf(window_roles)
                  IN  IF role \in DOMAIN ROLE_WEIGHTS THEN role ELSE DEFAULT_ROLE

----------------------------------------------------------------------------
(* src/utils/io.py and the box-score files                                 *)

\* the dates of the runs: box_<date>.csv exists or not for each of them
FileOrder == <<1, 2>>
FileSlots == {FileOrder[i] : i \in 1..Len(FileOrder)}

\* read_csv_glob("data/parquet/boxscores/box_*.csv"): every file that
\* exists is read, whatever update cycle already read it
RECURSIVE ConcatFiles(_, _)
ConcatFiles(files, k) ==
    IF k > Len(FileOrder) THEN <<>>
    ELSE LET f == files[FileOrder[k]]
         IN  (IF f.exists THEN f.rows ELSE <<>>) \o ConcatFiles(files, k + 1)

read_csv_glob(files) == ConcatFiles(files, 1)

----------------------------------------------------------------------------
(* src/etl/fetch_daily.py                                                  *)

\* pd.to_numeric(errors="coerce") on a cell read from a provider
NumeralValue(tok) ==
    CASE tok = "0"  -> 0
      [] tok = "4"  -> 4
      [] tok = "5"  -> 5
      [] tok = "6"  -> 6
      [] tok = "7"  -> 7
      [] tok = "8"  -> 8
      [] tok = "12" -> 12
      [] tok = "16" -> 16
      [] tok = "19" -> 19
      [] tok = "24" -> 24
      [] tok = "28" -> 28
      [] tok = "31" -> 31
      [] tok = "34" -> 34
      [] tok = "-100" -> -100
      [] tok = "-250" -> -250
      [] OTHER -> NaN

FillNa(v, d) == IF v = NaN THEN d ELSE v

NormalizeNeed ==
    {"game_id", "player_id", "team_id", "opp_id", "minutes", "PTS", "REB", "AST"}

RawRow(g, p, m, pts, reb, ast) ==
    [game_id |-> g, player_id |-> p, minutes |-> m, PTS |-> pts, REB |-> reb, AST |-> ast]

\* the tables a provider may hand to _normalize for one date
RawTables ==
    { [columns |-> NormalizeNeed,
       rows |-> <<RawRow("G1", "P_A", "34", "24", "8", "6"),
                  RawRow("G1", "P_B", "28", "16", "5", "4")>>],
      [columns |-> NormalizeNeed,
       rows |-> <<RawRow("G2", "P_A", "DNP", "", "0", "0")>>],
      [columns |-> NormalizeNeed,
       rows |-> <<RawRow("G4", "P_B", "12", "4", "5", "0"),
                  RawRow("G5", "P_B", "31", "19", "7", "6")>>],
      [columns |-> NormalizeNeed \ {"minutes"},
       rows |-> <<RawRow("G6", "P_A", "", "24", "8", "6")>>] }

\* _normalize(df, date): the rows with numeric cells coerced, NaN filled
\* with 0, the date column set, and no role column
NormalizeRow(r, date) ==
    [game_id   |-> r.game_id,
     player_id |-> r.player_id,
     date      |-> date,
     minutes   |-> FillNa(NumeralValue(r.minutes), 0),
     PTS       |-> FillNa(NumeralValue(r.PTS), 0),
     REB       |-> FillNa(NumeralValue(r.REB), 0),
     AST       |-> FillNa(NumeralValue(r.AST), 0),
     role      |-> NoRole]

_normalize(df, date) == [i \in 1..Len(df.rows) |-> NormalizeRow(df.rows[i], date)]

NormalizeMissing(df) == NormalizeNeed \ df.columns

\* fetch_daily.main(run_date, provider): box_<run_date>.csv is written,
\* replacing a file of that date; a table lacking a column aborts the run
FetchDaily(d, raw) ==
    /\ IF NormalizeMissing(raw) # {}
       THEN /\ UNCHANGED <<boxFiles, newSince>>
            /\ lastOp' = "fetch_failed"
       ELSE /\ boxFiles' = [boxFiles EXCEPT ![d] = [exists |-> TRUE, rows |-> _normalize(raw, d)]]
            /\ newSince' = newSince \cup {d}
            /\ lastOp' = "fetch"
    /\ UNCHANGED <<priorsCsv, cycles>>
    /\ UNCHANGED <<varsPricing, varsSim, varsValidate, varsPipe, varsCall, varsHttp>>

----------------------------------------------------------------------------
(* update_priors                                                           *)

RowsOf(df, pid) == SelectSeq(df, LAMBDA r : r.player_id = pid)

\* df.sort_values(["player_id", "date"]) restricted to one player: a stable
\* sort of the player's rows by date
RECURSIVE SortByDate(_)
SortByDate(rows) ==
    IF rows = <<>> THEN <<>>
    ELSE LET lo   == CHOOSE i \in 1..Len(rows) :
                         /\ \A j \in 1..Len(rows) : rows[i].date <= rows[j].date
                         /\ \A j \in 1..(i - 1) : rows[j].date # rows[i].date
             rest == [k \in 1..(Len(rows) - 1) |-> IF k < lo THEN rows[k] ELSE rows[k + 1]]
         IN  <<rows[lo]>> \o SortByDate(rest)

HasRoleColumn(df) == \E i \in 1..Len(df) : df[i].role # NoRole

\* role_map.get(pid, default): (role, min_mult, rate_mult)
RoleOf(df, pid) ==
    IF HasRoleColumn(df)
    THEN _resolve_role(Column(SortByDate(RowsOf(df, pid)), "role"))
    ELSE DEFAULT_ROLE

\* df.groupby("player_id").agg(...): one row per player of the batch
Agg(df, pid) ==
    LET g == RowsOf(df, pid)
    IN  [player_id |-> pid,
         minutes |-> SumSeq(Column(g, "minutes")),
         PTS     |-> SumSeq(Column(g, "PTS")),
         REB     |-> SumSeq(Column(g, "REB")),
         AST     |-> SumSeq(Column(g, "AST")),
         n_games |-> Len(g)]

BatchPlayers(df) == SelectSeq(PlayerOrder, LAMBDA p : RowsOf(df, p) # <<>>)

\* pri[(pri.player_id == pid) & (pri.stat == stat)]
OldRows(pri, pid, stat) ==
    SelectSeq(pri, LAMBDA r : r.player_id = pid /\ r.stat = stat)

\* (a0, b0, n0): the existing row when there is exactly one, else the seed
Prior0(pri, pid, stat) ==
    LET old == OldRows(pri, pid, stat)
    IN  IF Len(old) = 1
        THEN [alpha |-> old[1].alpha, beta |-> old[1].beta, n_games |-> old[1].n_games]
        ELSE IF stat \in DOMAIN PRIOR_BY_STAT
             THEN [alpha |-> PRIOR_BY_STAT[stat].alpha,
                   beta |-> PRIOR_BY_STAT[stat].beta, n_games |-> 0]
             ELSE [alpha |-> PRIOR_ALPHA, beta |-> PRIOR_BETA, n_games |-> 0]

MINUTES_SCALE == 36

\* the update with the observed minutes left out of beta
PosteriorDropsMinutes(p0, x, m) == [alpha |-> p0.alpha + x, beta |-> p0.beta]

\* a1, b1 = a0 + x, b0 + m
Posterior(p0, x, m) == [alpha |-> p0.alpha + x, beta |-> p0.beta + m]

BeliefRow(pri, df, pid, stat, run_date) ==
    LET r    == Agg(df, pid)
        p0   == Prior0(pri, pid, stat)
        p1   == Posterior(p0, r[stat], r.minutes)
        role == RoleOf(df, pid)
    IN  [player_id |-> pid,
         stat |-> stat,
         alpha |-> p1.alpha,
         beta |-> p1.beta,
         minutes_scale |-> MINUTES_SCALE,
         n_games |-> p0.n_games + r.n_games,
         last_update |-> run_date,
         role |-> role,
         min_mult |-> ROLE_WEIGHTS[role].min_mult,
         rate_mult |-> ROLE_WEIGHTS[role].rate_mult]

\* the table update_priors writes: a row per (player of the batch, stat)
UpdatedRows(pri, df, run_date) ==
    LET ps == BatchPlayers(df)
    IN  [k \in 1..(Len(ps) * Len(Stats)) |->
            BeliefRow(pri, df, ps[((k - 1) \div Len(Stats)) + 1],
                      Stats[((k - 1) % Len(Stats)) + 1], run_date)]

\* update_priors(run_date): the store is read, every box file is read, and
\* the store file is replaced by the rows built from the batch
UpdatePriors(run_date) ==
    /\ cycles < MaxCycles
    /\ cycles' = cycles + 1
    /\ LET df == read_csv_glob(boxFiles)
       IN  IF df = <<>>
           THEN /\ priorsCsv' = priorsCsv
                /\ lastOp' = "update_noop"
           ELSE /\ priorsCsv' = UpdatedRows(priorsCsv, df, run_date)
                /\ lastOp' = "update"
    /\ newSince' = {}
    /\ UNCHANGED boxFiles
    /\ UNCHANGED <<varsPricing, varsSim, varsValidate, varsPipe, varsCall, varsHttp>>

\* no store, no box file, no update made
PriorsIdle ==
    /\ boxFiles = [d \in FileSlots |-> NoFile]
    /\ priorsCsv = <<>>
    /\ cycles = 0
    /\ newSince = {}
    /\ lastOp = "init"

\* no pricing run under way
PricingIdle ==
    /\ predsCsv = NoFile
    /\ oddsCsv = [columns |-> {}, rows |-> <<>>]
    /\ preds = <<>>
    /\ odds = <<>>
    /\ edges = <<>>
    /\ edgesCsv = NoFile
    /\ pricingPc = "idle"

\* the simulator processes: two runs of the same date
Procs == {1, 2}

\* no simulator run under way
SimIdle ==
    /\ simPri = NoFile
    /\ simOvr = [exists |-> FALSE, columns |-> {}, rows |-> <<>>]
    /\ simDate = 0
    /\ hashKey = [p \in Procs |-> 0]
    /\ simPc = [p \in Procs |-> "idle"]
    /\ rng = [p \in Procs |-> 0]
    /\ paceShock = [p \in Procs |-> 0]
    /\ minutesDraws = [p \in Procs |-> {}]
    /\ rowIdx = [p \in Procs |-> 0]
    /\ outRows = [p \in Procs |-> <<>>]
    /\ predictionsCsv = NoFile

\* validate_odds not called
NoOutcome == [kind |-> "none", rows |-> <<>>, missing |-> <<>>]

ValidateIdle ==
    /\ oddsDf = [columns |-> {}, rows |-> <<>>]
    /\ validatePc = "idle"
    /\ validateOut = NoOutcome

\* no pipeline run under way
PipeIdle ==
    /\ pipePc = [p \in Procs |-> "idle"]
    /\ pipePri = [p \in Procs |-> <<>>]
    /\ runsDir = [d \in FileSlots |-> [predictions |-> NoFile, edges |-> NoFile]]
    /\ store0 = <<>>

\* no function called on its own
NotReturned == [done |-> FALSE, value |-> <<>>]

CallIdle ==
    /\ callFn = "none"
    /\ callArg = <<>>
    /\ callRet = NotReturned

NoFetch == [kind |-> "none", status |-> 0]

HttpIdle ==
    /\ provider = "none"
    /\ maxRetries = 0
    /\ attempt = 0
    /\ httpLog = <<>>
    /\ lastExc = "none"
    /\ httpPc = "idle"
    /\ httpOut = NoFetch

InitPriors ==
    /\ PriorsIdle /\ PricingIdle /\ SimIdle /\ ValidateIdle /\ PipeIdle /\ CallIdle
    /\ HttpIdle

NextPriors ==
    \/ \E d \in FileSlots, raw \in RawTables : FetchDaily(d, raw)
    \/ \E d \in FileSlots : UpdatePriors(d)

SpecPriors == InitPriors /\ [][NextPriors]_vars

\* ---- ingestion of a source that holds negative numerals

\* a table whose cells parse to negative numbers: pd.to_numeric accepts a
\* sign, and _normalize neither clips nor rejects
SignedTables ==
    { [columns |-> NormalizeNeed,
       rows |-> <<RawRow("G7", "P_A", "-250", "-100", "5", "0")>>] }

NextIngest ==
    \/ \E d \in FileSlots, raw \in RawTables \cup SignedTables : FetchDaily(d, raw)
    \/ \E d \in FileSlots : UpdatePriors(d)

SpecIngest == InitPriors /\ [][NextIngest]_vars

----------------------------------------------------------------------------
(* src/core/pricing.py: math utils                                         *)
(* Means, lines and sigmas are counted in halves of a stat unit; on that   *)
(* grid sigma <= 1e-8 is sigma <= 0.  z is counted in halves as well.      *)

\* one probability unit is a millionth
ProbOne == 1000000

\* a quotient rounded toward zero
Quot(a, b) ==
    IF (a >= 0) = (b > 0) THEN (IF a >= 0 THEN a ELSE -a) \div (IF b > 0 THEN b ELSE -b)
    ELSE -((IF a >= 0 THEN a ELSE -a) \div (IF b > 0 THEN b ELSE -b))

\* Phi at 0, 0.5, 1.0, ... 4.5, in millionths; 1 beyond
PhiTable ==
    <<500000, 691462, 841345, 933193, 977250, 993790, 998650, 999767, 999968, 999997>>

\* _norm_cdf(x) = 0.5 * (1 + erf(x / sqrt(2))), x in halves
_norm_cdf(z2) ==
    IF z2 >= 0
    THEN (IF z2 + 1 <= Len(PhiTable) THEN PhiTable[z2 + 1] ELSE ProbOne)
    ELSE ProbOne - (IF 1 - z2 <= Len(PhiTable) THEN PhiTable[1 - z2] ELSE ProbOne)

\* sigma <= 1e-8 on the grid of halves
SigmaNegligible(sigma) == sigma <= 0

\* z = (line - mean) / sigma, in halves
ZScore(mean, sigma, line) == Quot(2 * (line - mean), sigma)

\* the step function with the comparison including equality
NormalOverProbAtOrAbove(mean, sigma, line) ==
    IF SigmaNegligible(sigma) THEN (IF mean >= line THEN ProbOne ELSE 0)
    ELSE ProbOne - _norm_cdf(ZScore(mean, sigma, line))

_normal_over_prob(mean, sigma, line) ==
    IF SigmaNegligible(sigma) THEN (IF mean > line THEN ProbOne ELSE 0)
    ELSE ProbOne - _norm_cdf(ZScore(mean, sigma, line))

\* the step function with the comparison including equality
NormalUnderProbAtOrBelow(mean, sigma, line) ==
    IF SigmaNegligible(sigma) THEN (IF mean <= line THEN ProbOne ELSE 0)
    ELSE _norm_cdf(ZScore(mean, sigma, line))

_normal_under_prob(mean, sigma, line) ==
    IF SigmaNegligible(sigma) THEN (IF mean < line THEN ProbOne ELSE 0)
    ELSE _norm_cdf(ZScore(mean, sigma, line))

\* decimal odds are hundredths; 1/d in millionths; None is NaN
OddsOne == 100
_decimal_to_prob(d) ==
    IF d = NaN THEN NaN
    ELSE IF d <= OddsOne THEN NaN
    ELSE (ProbOne * OddsOne) \div d

IsFinite(x) == x # NaN

----------------------------------------------------------------------------
(* predictions loading & repair                                            *)

BaseMarkets == {"PTS", "REB", "AST"}
Composites == {"PA", "RA", "PRA"}

\* 1 / _PCTL_TO_SIGMA in millionths: sigma = (p90 - p10) / 2.563103
PctlToSigmaInv == 390152

\* _repair_mean_sigma on one row
RepairRow(r) ==
    LET mean1 == IF r.mean = NaN THEN r.median ELSE r.mean
        both  == r.p10 # NaN /\ r.p90 # NaN
        mid   == IF both THEN Quot(r.p10 + r.p90, 2) ELSE NaN
        mean2 == IF mean1 = NaN THEN mid ELSE mean1
        est   == IF both THEN Quot((r.p90 - r.p10) * PctlToSigmaInv, ProbOne) ELSE NaN
    IN  [r EXCEPT !.mean = mean2, !.sigma = IF r.sigma = NaN THEN est ELSE r.sigma]

_repair_mean_sigma(df) == [i \in 1..Len(df) |-> RepairRow(df[i])]

MarketsOf(df) == {df[i].market : i \in 1..Len(df)}

BaseRows(df) == SelectSeq(df, LAMBDA r : r.market \in BaseMarkets)

\* the non-missing values of one column for (player, market)
CellValues(base, pid, mkt, f) ==
    LET g == SelectSeq(base, LAMBDA r : r.player_id = pid /\ r.market = mkt /\ r[f] # NaN)
    IN  [i \in 1..Len(g) |-> g[i][f]]

\* pivot_table(index="player_id", columns="market", values=f, aggfunc="mean")
\* read at (pid, mkt): NaN where the pivot has no value
Wide(base, pid, mkt, f) ==
    LET v == CellValues(base, pid, mkt, f)
    IN  IF v = <<>> THEN NaN ELSE Quot(SumSeq(v), Len(v))

\* the index of the pivot: players with a value; its columns likewise
WideIndex(base, f) ==
    SelectSeq(PlayerOrder, LAMBDA p : \E m \in BaseMarkets : CellValues(base, p, m, f) # <<>>)
WideColumns(base, f) ==
    {m \in BaseMarkets : \E p \in Players : CellValues(base, p, m, f) # <<>>}

\* wide.get(mkt, np.nan).get(pid, np.nan) needs the column: np.nan has no .get
CompositesRaise(base) ==
    /\ WideIndex(base, "mean") # <<>>
    /\ \/ WideColumns(base, "mean") # BaseMarkets
       \/ WideColumns(base, "sigma") # BaseMarkets

RECURSIVE ISqrtIn(_, _, _)
ISqrtIn(n, lo, hi) ==
    IF lo = hi THEN lo
    ELSE LET mid == (lo + hi + 1) \div 2
         IN  IF mid * mid <= n THEN ISqrtIn(n, mid, hi) ELSE ISqrtIn(n, lo, mid - 1)

ISqrt(n) == ISqrtIn(n, 0, IF n < 46340 THEN n ELSE 46340)

\* sigmas added up instead of their squares
SumSigmaLinear(sigmas) ==
    LET have == SelectSeq(sigmas, LAMBDA x : x # NaN)
    IN  IF have = <<>> THEN NaN ELSE SumSeq(have)

\* sum_sigma(*sigmas): sqrt of the sum of the squares of the sigmas given
sum_sigma(sigmas) ==
    LET have == SelectSeq(sigmas, LAMBDA x : x # NaN)
    IN  IF have = <<>> THEN NaN
        ELSE ISqrt(SumSeq([i \in 1..Len(have) |-> have[i] * have[i]]))

NaNAsZero(x) == IF x = NaN THEN 0 ELSE x

\* the constituents of a composite market, in the order the code adds them
Constituents(mkt) ==
    CASE mkt = "PA"  -> <<"PTS", "AST">>
      [] mkt = "RA"  -> <<"REB", "AST">>
      [] mkt = "PRA" -> <<"PTS", "REB", "AST">>

CompositeOrder == <<"PA", "RA", "PRA">>

\* string order of the base markets (sort_values("market"))
MarketRank(m) == CASE m = "AST" -> 1 [] m = "PTS" -> 2 [] m = "REB" -> 3 [] OTHER -> 4

\* base.sort_values("market").drop_duplicates(["player_id"]): the player's
\* base row of the smallest market
BaseKeep(base, pid) ==
    LET g == SelectSeq(base, LAMBDA r : r.player_id = pid)
        k == CHOOSE i \in 1..Len(g) :
                /\ \A j \in 1..Len(g) : MarketRank(g[i].market) <= MarketRank(g[j].market)
                /\ \A j \in 1..(i - 1) : g[j].market # g[i].market
    IN  g[k]

CompositeRow(base, pid, mkt) ==
    LET cs   == Constituents(mkt)
        keep == BaseKeep(base, pid)
    IN  [player_id |-> pid,
         market |-> mkt,
         mean   |-> SumSeq([i \in 1..Len(cs) |-> NaNAsZero(Wide(base, pid, cs[i], "mean"))]),
         sigma  |-> sum_sigma([i \in 1..Len(cs) |-> Wide(base, pid, cs[i], "sigma")]),
         minutes |-> keep.minutes, role |-> keep.role,
         min_mult |-> keep.min_mult, rate_mult |-> keep.rate_mult,
         p10 |-> NaN, p90 |-> NaN, median |-> NaN]

CompositeRows(base) ==
    LET ps == WideIndex(base, "mean")
        n  == Len(CompositeOrder)
    IN  [k \in 1..(Len(ps) * n) |->
            CompositeRow(base, ps[((k - 1) \div n) + 1], CompositeOrder[((k - 1) % n) + 1])]

\* _with_composites(df, ["PA", "RA", "PRA"]), where it does not raise
_with_composites(df) ==
    IF Composites \subseteq MarketsOf(df) THEN df
    ELSE IF BaseRows(df) = <<>> THEN df
    ELSE df \o CompositeRows(BaseRows(df))

----------------------------------------------------------------------------
(* odds & pricing                                                          *)

OddsNeeded == {"player_id", "market", "side", "line"}

\* _load_odds raises SystemExit on a missing column
LoadOddsRaises(csv) ==
    \/ OddsNeeded \ csv.columns # {}
    \/ ("decimal_odds" \notin csv.columns /\ "book_prob" \notin csv.columns)

\* str(side).lower()
Lower(side) ==
    CASE side = "OVER"  -> "over"
      [] side = "UNDER" -> "under"
      [] side = "Under" -> "under"
      [] side = "PUSH"  -> "push"
      [] OTHER -> side

\* the fair probability priced with the sides exchanged
ComputeFairProbSwapped(row) ==
    IF ~(IsFinite(row.mean) /\ IsFinite(row.sigma) /\ IsFinite(row.line)) THEN NaN
    ELSE IF Lower(row.side) \notin {"over", "under"} THEN NaN
    ELSE IF Lower(row.side) = "under"
         THEN _normal_over_prob(row.mean, row.sigma, row.line)
         ELSE _normal_under_prob(row.mean, row.sigma, row.line)

\* _compute_fair_prob(row): None (NaN in the frame) when it cannot be priced
_compute_fair_prob(row) ==
    IF ~(IsFinite(row.mean) /\ IsFinite(row.sigma) /\ IsFinite(row.line)) THEN NaN
    ELSE IF Lower(row.side) \notin {"over", "under"} THEN NaN
    ELSE IF Lower(row.side) = "over"
         THEN _normal_over_prob(row.mean, row.sigma, row.line)
         ELSE _normal_under_prob(row.mean, row.sigma, row.line)

\* one ev unit is 1e-8: decimal odds (hundredths) times probability (millionths)
EvOne == ProbOne * OddsOne

\* ev computed against the fair odds 1 / fair_p instead of the book's odds
EvAtFairOdds(decimal_odds, fair_p) ==
    IF decimal_odds = NaN \/ fair_p = NaN \/ fair_p = 0 THEN NaN
    ELSE (EvOne \div fair_p) * fair_p - EvOne

\* merged["ev"] = merged["decimal_odds"] * merged["fair_p"] - 1.0
Ev(decimal_odds, fair_p) ==
    IF decimal_odds = NaN \/ fair_p = NaN THEN NaN
    ELSE decimal_odds * fair_p - EvOne

\* _rationale(...): the parts joined by "; ", "n/a" when there is none.
\* A role read from a frame is a string or NaN, and NaN is truthy.
RolePart(r) ==
    IF r.role = "" THEN <<>>
    ELSE <<[part |-> "role", role |-> r.role, min_mult |-> r.min_mult, rate_mult |-> r.rate_mult]>>
MinutesPart(r) ==
    IF IsFinite(r.minutes) THEN <<[part |-> "proj_min", minutes |-> r.minutes]>> ELSE <<>>
MeanPart(r) ==
    IF IsFinite(r.mean) THEN <<[part |-> "sim_mean", mean |-> r.mean]>> ELSE <<>>
\* the line minus the mean
DeltaPartLineMinusMean(r) ==
    IF IsFinite(r.line)
    THEN <<[part |-> "delta", market |-> r.market, line |-> r.line,
            d |-> IF IsFinite(r.mean) THEN r.line - r.mean ELSE NaN]>>
    ELSE <<>>

DeltaPart(r) ==
    IF IsFinite(r.line)
    THEN <<[part |-> "delta", market |-> r.market, line |-> r.line,
            d |-> IF IsFinite(r.mean) THEN r.mean - r.line ELSE NaN]>>
    ELSE <<>>
SigmaPart(r) ==
    IF IsFinite(r.sigma) THEN <<[part |-> "method", sigma |-> r.sigma]>>
    ELSE <<[part |-> "method", sigma |-> NaN]>>

_rationale(r) ==
    LET parts == RolePart(r) \o MinutesPart(r) \o MeanPart(r) \o DeltaPart(r) \o SigmaPart(r)
    IN  IF parts = <<>> THEN <<[part |-> "n/a"]>> ELSE parts

\* ---- the text of a rationale: every part is a sequence of tokens, a
\* token is literal text or a numeral with a fixed number of decimals.
\* The literals stand for the ones of the f-strings with "*" for the
\* multiplication sign, "~" for the almost-equal sign, "D" for the delta
\* and "s" for the sigma.

Lit(txt) == [kind |-> "lit", txt |-> txt, num |-> 0, dec |-> 0]

Pow10(dec) == IF dec = 0 THEN 1 ELSE IF dec = 1 THEN 10 ELSE 100

\* f"{x:.<dec>f}" and f"{x:+.<dec>f}" of a value held as x / unit; every
\* value of the model is a whole number of 10^-dec, so nothing is rounded;
\* NaN is written nan, +nan when signed
Fixed(x, unit, dec, signed) ==
    IF x = NaN THEN Lit(IF signed THEN "+nan" ELSE "nan")
    ELSE [kind |-> "num",
          txt |-> IF x < 0 THEN "-" ELSE IF signed THEN "+" ELSE "",
          num |-> ((IF x < 0 THEN -x ELSE x) * Pow10(dec)) \div unit,
          dec |-> dec]

\* the text of one part, lines 61-74
PartText(pt) ==
    CASE pt.part = "role" ->
            <<Lit("role="), Lit(pt.role), Lit(" (min*"), Fixed(pt.min_mult, 100, 2, FALSE),
              Lit(", rate*"), Fixed(pt.rate_mult, 100, 2, FALSE), Lit(")")>>
      [] pt.part = "proj_min" -> <<Lit("proj_min~"), Fixed(pt.minutes, 2, 1, FALSE)>>
      [] pt.part = "sim_mean" -> <<Lit("sim_mean="), Fixed(pt.mean, 2, 2, FALSE)>>
      [] pt.part = "delta" ->
            <<Lit("Dvs_"), Lit(pt.market), Lit("("), Fixed(pt.line, 2, 1, FALSE), Lit(")="),
              Fixed(pt.d, 2, 2, TRUE)>>
      [] pt.part = "method" ->
            IF IsFinite(pt.sigma)
            THEN <<Lit("method=Normal(s="), Fixed(pt.sigma, 2, 2, FALSE), Lit(")")>>
            ELSE <<Lit("method=Normal")>>
      [] OTHER -> <<Lit("n/a")>>

\* "; ".join(parts): the texts of the parts in their order
RationaleText(parts) == [k \in 1..Len(parts) |-> PartText(parts[k])]

\* preds[pred_keep].drop_duplicates(["player_id", "market"]): the first row
\* of each (player, market)
PredsSlim(pr) ==
    SelectSeq([i \in 1..Len(pr) |-> [row |-> pr[i], first |->
                  \A j \in 1..(i - 1) :
                     ~(pr[j].player_id = pr[i].player_id /\ pr[j].market = pr[i].market)]],
              LAMBDA x : x.first)

Matches(slim, o) ==
    SelectSeq(slim, LAMBDA x : x.row.player_id = o.player_id /\ x.row.market = o.market)

\* the columns a forecast brings to a merged row, NaN when there is none
ForecastOf(slim, o) ==
    IF Matches(slim, o) # <<>> THEN Matches(slim, o)[1].row
    ELSE [player_id |-> o.player_id, market |-> o.market, mean |-> NaN, sigma |-> NaN,
          median |-> NaN, p10 |-> NaN, p90 |-> NaN, minutes |-> NaN,
          role |-> NoRole, min_mult |-> NaN, rate_mult |-> NaN]

\* one row of odds.merge(preds_slim, how="left") with the computed columns
EdgeRow(slim, o, hasBookProb, run_date) ==
    LET f  == ForecastOf(slim, o)
        m  == [player_id |-> o.player_id, market |-> o.market, side |-> o.side,
               line |-> o.line, mean |-> f.mean, sigma |-> f.sigma,
               minutes |-> f.minutes, role |-> f.role,
               min_mult |-> f.min_mult, rate_mult |-> f.rate_mult]
        bp == IF hasBookProb THEN o.book_prob ELSE _decimal_to_prob(o.decimal_odds)
        fp == _compute_fair_prob(m)
    IN  [date |-> run_date, player_id |-> o.player_id, market |-> o.market,
         side |-> o.side, line |-> o.line, decimal_odds |-> o.decimal_odds,
         book_prob |-> bp, fair_p |-> fp, ev |-> Ev(o.decimal_odds, fp),
         mean |-> f.mean, sigma |-> f.sigma, minutes |-> f.minutes, role |-> f.role,
         min_mult |-> f.min_mult, rate_mult |-> f.rate_mult,
         rationale |-> _rationale(m)]

\* build_edges(odds, preds, run_date): one output row per wager line
build_edges(od, pr, run_date) ==
    [i \in 1..Len(od.rows) |->
        EdgeRow(PredsSlim(pr), od.rows[i], "book_prob" \in od.columns, run_date)]

\* the date of the pricing run
RunDate == 1

\* _load_predictions(run_date): stat renamed to market, mean and sigma
\* repaired, composites added
RenameStat(r) ==
    [player_id |-> r.player_id, market |-> r.stat, mean |-> r.mean, sigma |-> r.sigma,
     median |-> r.median, p10 |-> r.p10, p90 |-> r.p90, minutes |-> r.minutes,
     role |-> r.role, min_mult |-> r.min_mult, rate_mult |-> r.rate_mult]

Repaired(csv) == _repair_mean_sigma([i \in 1..Len(csv.rows) |-> RenameStat(csv.rows[i])])

LoadPredictionsRaises(csv) ==
    \/ ~csv.exists
    \/ /\ ~(Composites \subseteq MarketsOf(Repaired(csv)))
       /\ BaseRows(Repaired(csv)) # <<>>
       /\ CompositesRaise(BaseRows(Repaired(csv)))

_load_predictions(csv) == _with_composites(Repaired(csv))

\* main(odds_csv, run_date), line 271
LoadPredictions ==
    /\ pricingPc = "start"
    /\ IF LoadPredictionsRaises(predsCsv)
       THEN pricingPc' = "failed" /\ UNCHANGED preds
       ELSE pricingPc' = "preds" /\ preds' = _load_predictions(predsCsv)
    /\ UNCHANGED <<predsCsv, oddsCsv, odds, edges, edgesCsv>>
    /\ UNCHANGED <<varsPriors, varsSim, varsValidate, varsPipe, varsCall, varsHttp>>

\* main, line 272
LoadOdds ==
    /\ pricingPc = "preds"
    /\ IF LoadOddsRaises(oddsCsv)
       THEN pricingPc' = "failed" /\ UNCHANGED odds
       ELSE pricingPc' = "odds" /\ odds' = oddsCsv
    /\ UNCHANGED <<predsCsv, oddsCsv, preds, edges, edgesCsv>>
    /\ UNCHANGED <<varsPriors, varsSim, varsValidate, varsPipe, varsCall, varsHttp>>

\* main, line 273
BuildEdges ==
    /\ pricingPc = "odds"
    /\ edges' = build_edges(odds, preds, RunDate)
    /\ pricingPc' = "edges"
    /\ UNCHANGED <<predsCsv, oddsCsv, preds, odds, edgesCsv>>
    /\ UNCHANGED <<varsPriors, varsSim, varsValidate, varsPipe, varsCall, varsHttp>>

\* main, lines 275-278
WriteEdges ==
    /\ pricingPc = "edges"
    /\ edgesCsv' = [exists |-> TRUE, rows |-> edges]
    /\ pricingPc' = "written"
    /\ UNCHANGED <<predsCsv, oddsCsv, preds, odds, edges>>
    /\ UNCHANGED <<varsPriors, varsSim, varsValidate, varsPipe, varsCall, varsHttp>>

\* ---- the inputs of a pricing run

PredRow(pid, stat, mean, sigma, median, p10, p90) ==
    [player_id |-> pid, stat |-> stat, mean |-> mean, sigma |-> sigma,
     median |-> median, p10 |-> p10, p90 |-> p90, minutes |-> 42,
     role |-> "bench", min_mult |-> 70, rate_mult |-> 98]

\* forecast rows a predictions.csv may hold (values in halves)
PredCandidates ==
    <<PredRow("P_A", "PTS", 40, 6, 40, 32, 48),
      PredRow("P_A", "REB", 16, 0, 16, 16, 16),
      PredRow("P_A", "AST", 10, 8, 10, 0, 20),
      PredRow("P_B", "PTS", NaN, NaN, NaN, 20, 30),
      PredRow("P_B", "AST", 6, NaN, 6, NaN, NaN),
      PredRow("P_B", "REB", 8, 2, 8, 6, 10),
      PredRow("P_A", "PA", 52, 9, 52, 40, 64)>>

PredFiles ==
    {NoFile} \cup
    { [exists |-> TRUE,
       rows |-> SelectSeq(PredCandidates, LAMBDA r : r \in pick)] :
      pick \in SUBSET {PredCandidates[i] : i \in 1..Len(PredCandidates)} }

OddsRow(pid, mkt, side, line, dec) ==
    [player_id |-> pid, market |-> mkt, side |-> side, line |-> line,
     decimal_odds |-> dec, book_prob |-> NaN]

\* wager lines an odds CSV may hold (lines in halves, odds in hundredths)
OddsCandidates ==
    <<OddsRow("P_A", "PTS", "OVER", 36, 200),
      OddsRow("P_A", "REB", "OVER", 16, 190),
      OddsRow("P_A", "PA", "OVER", 50, 150),
      OddsRow("P_A", "AST", "Under", 10, 210),
      OddsRow("P_C", "PTS", "OVER", 30, 180),
      OddsRow("P_B", "PTS", "PUSH", 25, 90),
      OddsRow("P_B", "REB", "UNDER", 18, 195)>>

OddsColumns == OddsNeeded \cup {"decimal_odds"}

OddsFiles ==
    { [columns |-> OddsColumns,
       rows |-> SelectSeq(OddsCandidates, LAMBDA r : r \in pick)] :
      pick \in (SUBSET {OddsCandidates[i] : i \in 1..Len(OddsCandidates)}) \ {{}} }
    \cup
    { [columns |-> OddsNeeded \cup {"book_prob"},
       rows |-> <<[player_id |-> "P_A", market |-> "PTS", side |-> "OVER", line |-> 36,
                   decimal_odds |-> NaN, book_prob |-> 500000]>>],
      [columns |-> OddsColumns \ {"side"},
       rows |-> <<OddsRow("P_A", "PTS", "", 36, 200)>>],
      [columns |-> OddsNeeded,
       rows |-> <<OddsRow("P_A", "PTS", "OVER", 36, NaN)>>] }

InitPricing ==
    /\ PriorsIdle
    /\ SimIdle
    /\ ValidateIdle
    /\ PipeIdle
    /\ CallIdle
    /\ HttpIdle
    /\ predsCsv \in PredFiles
    /\ oddsCsv \in OddsFiles
    /\ preds = <<>>
    /\ odds = <<>>
    /\ edges = <<>>
    /\ edgesCsv = NoFile
    /\ pricingPc = "start"

NextPricing ==
    \/ LoadPredictions
    \/ LoadOdds
    \/ BuildEdges
    \/ WriteEdges

SpecPricing == InitPricing /\ [][NextPricing]_vars

----------------------------------------------------------------------------
(* src/core/simulator.py                                                   *)
(* Minutes are tenths, counts are whole, summaries are hundredths.         *)

\* hash(run_date): str hashes are keyed by a key the interpreter draws when
\* it starts (hash randomization), so the value depends on the process
StrHash(run_date, key) == ((run_date * 31 + 7) * (2 * key + 1) + 11 * key) - 40

\* abs(hash(run_date)) % (2**32)
SeedOf(run_date, key) ==
    LET h == StrHash(run_date, key) IN (IF h < 0 THEN -h ELSE h) % SeedSpace

\* the generator: default_rng(seed) and the state after each variate
RngNext(st) == (5 * st + 3) % SeedSpace

RECURSIVE RngAt(_, _)
RngAt(st, k) == IF k = 0 THEN st ELSE RngAt(RngNext(st), k - 1)

\* a standard normal variate, in whole standard deviations, from a state
ZTable == <<0, -1, 1, -7, 0, 4, -2, 7>>
StdNormal(st) == ZTable[(st % Len(ZTable)) + 1]

Clip(x, lo, hi) == IF x < lo THEN lo ELSE IF x > hi THEN hi ELSE x

\* rng.normal(loc, scale)
NormalVariate(loc, scale, st) == loc + scale * StdNormal(st)

\* rng.gamma(shape=alpha, scale=1/beta): a rate per minute in 1e-4
GammaVariate(alpha, beta, st) ==
    LET base == (alpha * 10000) \div beta
    IN  Clip(base + (base * Clip(StdNormal(st), -3, 3)) \div 10, 0, 100000)

\* rng.poisson(mean): a count, the mean given in 1e-7
PoissonVariate(mean, st) ==
    Clip(mean \div 10000000 + Clip(StdNormal(st), -3, 3), 0, 1000)

\* posterior_samples(alpha, beta, minutes, draws, rng, rate_mult): the
\* gamma variates are drawn first, then the poisson variates
posterior_samples(alpha, beta, minutes, draws, st, rate_mult) ==
    [k \in 1..draws |->
        LET lam == (GammaVariate(alpha, beta, RngAt(st, k)) * rate_mult) \div 100
        IN  PoissonVariate(lam * minutes * 100, RngAt(st, draws + k))]

RECURSIVE SortAsc(_)
SortAsc(xs) ==
    IF xs = <<>> THEN <<>>
    ELSE LET i == CHOOSE i \in 1..Len(xs) :
                      /\ \A j \in 1..Len(xs) : xs[i] <= xs[j]
                      /\ \A j \in 1..(i - 1) : xs[j] # xs[i]
         IN  <<xs[i]>> \o SortAsc([k \in 1..(Len(xs) - 1) |-> IF k < i THEN xs[k] ELSE xs[k + 1]])

\* np.quantile(s, q), q in tenths: linear interpolation between order statistics
Quantile(xs, q10) ==
    LET srt == SortAsc(xs)
        pos == q10 * (Len(xs) - 1)
        lo  == pos \div 10 + 1
        hi  == IF lo < Len(xs) THEN lo + 1 ELSE lo
    IN  srt[lo] + ((srt[hi] - srt[lo]) * (pos % 10)) \div 10

\* summarize(samples): mean, median, p10, p90, sigma (ddof=1)
summarize(xs) ==
    LET n    == Len(xs)
        mean == SumSeq(xs) \div n
        ss   == SumSeq([k \in 1..n |-> (xs[k] - mean) * (xs[k] - mean)])
    IN  [mean |-> mean,
         median |-> Quantile(xs, 5),
         p10 |-> Quantile(xs, 1),
         p90 |-> Quantile(xs, 9),
         sigma |-> IF n > 1 THEN ISqrt(ss \div (n - 1)) ELSE NaN]

\* the baseline minutes of every player, tenths
BASE_MIN_PROJ == 300
BASE_MIN_SD == 40
MIN_CLIP_LO == 60
MIN_CLIP_HI == 440

\* no minutes_overrides.csv
NoOverrides == [exists |-> FALSE, columns |-> {}, rows |-> <<>>]

\* ovr[keep_cols].drop_duplicates("player_id"): the first row of a player
OvrRow(ovr, pid) ==
    LET g == SelectSeq(ovr.rows, LAMBDA r : r.player_id = pid)
    IN  IF ovr.exists /\ g # <<>> THEN g[1]
        ELSE [player_id |-> pid, min_proj |-> NaN, min_sd |-> NaN]

\* a minutes table that keeps the baseline for every player
MinutesParamsBaseline(ovr, pid) ==
    [min_proj |-> BASE_MIN_PROJ, min_sd |-> BASE_MIN_SD]

\* the minutes table after the merge: the override where one is given
MinutesParams(ovr, pid) ==
    [min_proj |-> FillNa(OvrRow(ovr, pid).min_proj, BASE_MIN_PROJ),
     min_sd   |-> FillNa(OvrRow(ovr, pid).min_sd, BASE_MIN_SD)]

\* a main that never exits before the loop
StartNeverRaises(pri, ovr) == FALSE

\* main raises SystemExit before the loop
SimStartRaises(pri, ovr) ==
    \/ ~pri.exists
    \/ pri.rows = <<>>
    \/ (ovr.exists /\ "player_id" \notin ovr.columns)
    \/ (ovr.exists /\ ~({"min_proj", "min_sd"} \subseteq ovr.columns))

CacheHas(cache, pid) == \E c \in cache : c.pid = pid
CacheGet(cache, pid) == (CHOOSE c \in cache : c.pid = pid).minutes

\* a minutes value drawn for every row, the cache not consulted
NeedsDrawAlways(cache, pid) == TRUE

\* if pid not in minutes_draws
NeedsDraw(cache, pid) == ~CacheHas(cache, pid)

\* main(run_date, draws), lines 32-68: the inputs are read, the generator
\* is seeded from hash(run_date), the pace shock is drawn
SimStart(p) ==
    /\ simPc[p] = "start"
    /\ IF SimStartRaises(simPri, simOvr)
       THEN /\ simPc' = [simPc EXCEPT ![p] = "failed"]
            /\ UNCHANGED <<rng, paceShock, rowIdx>>
       ELSE LET st0 == SeedOf(simDate, hashKey[p])
            IN  /\ paceShock' = [paceShock EXCEPT ![p] = NormalVariate(100, 5, RngAt(st0, 1))]
                /\ rng' = [rng EXCEPT ![p] = RngAt(st0, 1)]
                /\ rowIdx' = [rowIdx EXCEPT ![p] = 1]
                /\ simPc' = [simPc EXCEPT ![p] = "loop"]
    /\ UNCHANGED <<simPri, simOvr, simDate, hashKey, minutesDraws, outRows, predictionsCsv>>
    /\ UNCHANGED <<varsPriors, varsPricing, varsValidate, varsPipe, varsCall, varsHttp>>

\* the body of the loop for one belief row, lines 75-120: the cache and the
\* generator after it, and the row appended to out_rows
LoopBody(row, ovr, cache, st, pace, run_date) ==
    LET pid    == row.player_id
        mp     == MinutesParams(ovr, pid)
        mu     == (mp.min_proj * row.min_mult) \div 100
        sd     == (mp.min_sd * row.min_mult) \div 100
        fresh  == NeedsDraw(cache, pid)
        st1    == IF fresh THEN RngAt(st, 1) ELSE st
        m_draw == IF fresh
                  THEN Clip(NormalVariate(mu, sd, st1), MIN_CLIP_LO, MIN_CLIP_HI)
                  ELSE CacheGet(cache, pid)
        smp    == posterior_samples(row.alpha, row.beta, m_draw, Draws, st1, row.rate_mult)
        summ   == summarize([k \in 1..Draws |-> smp[k] * pace])
    IN  [cache |-> IF fresh
                   THEN {c \in cache : c.pid # pid} \cup {[pid |-> pid, minutes |-> m_draw]}
                   ELSE cache,
         rng |-> RngAt(st1, 2 * Draws),
         row |-> [date |-> run_date, player_id |-> pid, stat |-> row.stat,
                  minutes |-> m_draw, role |-> row.role,
                  min_mult |-> row.min_mult, rate_mult |-> row.rate_mult,
                  mean |-> summ.mean, median |-> summ.median, p10 |-> summ.p10,
                  p90 |-> summ.p90, sigma |-> summ.sigma]]

\* one iteration of the loop over the belief rows, lines 75-120
SimRow(p) ==
    /\ simPc[p] = "loop"
    /\ rowIdx[p] <= Len(simPri.rows)
    /\ LET b == LoopBody(simPri.rows[rowIdx[p]], simOvr, minutesDraws[p], rng[p],
                         paceShock[p], simDate)
       IN  /\ minutesDraws' = [minutesDraws EXCEPT ![p] = b.cache]
           /\ rng' = [rng EXCEPT ![p] = b.rng]
           /\ outRows' = [outRows EXCEPT ![p] = Append(@, b.row)]
    /\ rowIdx' = [rowIdx EXCEPT ![p] = @ + 1]
    /\ UNCHANGED <<simPri, simOvr, simDate, hashKey, simPc, paceShock, predictionsCsv>>
    /\ UNCHANGED <<varsPriors, varsPricing, varsValidate, varsPipe, varsCall, varsHttp>>

\* lines 122-126: predictions.csv of the date is written
SimWrite(p) ==
    /\ simPc[p] = "loop"
    /\ rowIdx[p] > Len(simPri.rows)
    /\ predictionsCsv' = [exists |-> TRUE, rows |-> outRows[p]]
    /\ simPc' = [simPc EXCEPT ![p] = "done"]
    /\ UNCHANGED <<simPri, simOvr, simDate, hashKey, rng, paceShock,
                   minutesDraws, rowIdx, outRows>>
    /\ UNCHANGED <<varsPriors, varsPricing, varsValidate, varsPipe, varsCall, varsHttp>>

\* ---- the inputs of the simulator runs

\* a box-score batch with role tags, as the integration test writes it
TaggedBatch ==
    <<[game_id |-> "G1", player_id |-> "P_A", date |-> 1, minutes |-> 32,
       PTS |-> 16, REB |-> 6, AST |-> 5, role |-> "starter"],
      [game_id |-> "G1", player_id |-> "P_B", date |-> 1, minutes |-> 32,
       PTS |-> 16, REB |-> 6, AST |-> 5, role |-> "sixth"]>>

\* the belief tables update_priors can have written, and the missing and
\* the empty table
SimPriFiles ==
    { NoFile,
      [exists |-> TRUE, rows |-> <<>>],
      [exists |-> TRUE, rows |-> UpdatedRows(<<>>, TaggedBatch, 1)] }
    \cup { [exists |-> TRUE, rows |-> UpdatedRows(<<>>, _normalize(raw, 1), 1)] :
           raw \in {t \in RawTables : NormalizeMissing(t) = {}} }

OvrColumns == {"player_id", "min_proj", "min_sd"}

SimOvrFiles ==
    { [exists |-> FALSE, columns |-> {}, rows |-> <<>>],
      [exists |-> TRUE, columns |-> OvrColumns,
       rows |-> <<[player_id |-> "P_A", min_proj |-> 360, min_sd |-> 20]>>],
      [exists |-> TRUE, columns |-> OvrColumns,
       rows |-> <<[player_id |-> "P_Z", min_proj |-> 200, min_sd |-> 50],
                  [player_id |-> "P_B", min_proj |-> 120, min_sd |-> NaN]>>],
      [exists |-> TRUE, columns |-> OvrColumns,
       rows |-> <<[player_id |-> "P_Z", min_proj |-> 200, min_sd |-> 50],
                  [player_id |-> "P_A", min_proj |-> 360, min_sd |-> 20],
                  [player_id |-> "P_A", min_proj |-> 100, min_sd |-> 10]>>],
      [exists |-> TRUE, columns |-> OvrColumns \ {"player_id"},
       rows |-> <<[player_id |-> "", min_proj |-> 360, min_sd |-> 20]>>] }

\* a predictions.csv an earlier run of the date left behind
OldPredictions ==
    [exists |-> TRUE,
     rows |-> <<[date |-> 1, player_id |-> "P_A", stat |-> "PTS", minutes |-> 300,
                 role |-> "bench", min_mult |-> 70, rate_mult |-> 98,
                 mean |-> 1200, median |-> 1200, p10 |-> 1000, p90 |-> 1400,
                 sigma |-> 200]>>]

\* PYTHONHASHSEED unset: each interpreter draws its own key
HashKeys == {0, 1}

InitSim ==
    /\ PriorsIdle
    /\ PricingIdle
    /\ ValidateIdle
    /\ PipeIdle
    /\ CallIdle
    /\ HttpIdle
    /\ simPri \in SimPriFiles
    /\ simOvr \in SimOvrFiles
    /\ simDate \in FileSlots
    /\ hashKey \in [Procs -> HashKeys]
    /\ simPc = [p \in Procs |-> "start"]
    /\ rng = [p \in Procs |-> 0]
    /\ paceShock = [p \in Procs |-> 0]
    /\ minutesDraws = [p \in Procs |-> {}]
    /\ rowIdx = [p \in Procs |-> 0]
    /\ outRows = [p \in Procs |-> <<>>]
    /\ predictionsCsv \in {NoFile, OldPredictions}

NextSim ==
    \E p \in Procs :
        \/ SimStart(p)
        \/ SimRow(p)
        \/ SimWrite(p)

SpecSim == InitSim /\ [][NextSim]_vars

----------------------------------------------------------------------------
(* src/core/odds.py                                                        *)
(* A cell is the text the table holds, a sequence of characters; numbers   *)
(* are hundredths.                                                         *)

MaxDfRows == 3

REQUIRED == <<"player_id", "market", "side", "line", "decimal_odds">>
ALLOWED_SIDES == {<<"O", "V", "E", "R">>, <<"U", "N", "D", "E", "R">>}

LowerLetters == <<"a", "b", "c", "d", "e", "f", "g", "h", "i", "j", "k", "l", "m",
                  "n", "o", "p", "q", "r", "s", "t", "u", "v", "w", "x", "y", "z">>
UpperLetters == <<"A", "B", "C", "D", "E", "F", "G", "H", "I", "J", "K", "L", "M",
                  "N", "O", "P", "Q", "R", "S", "T", "U", "V", "W", "X", "Y", "Z">>
Whitespace == {" ", "\t"}
Digits == <<"0", "1", "2", "3", "4", "5", "6", "7", "8", "9">>

IndexOf(xs, c) == IF \E i \in 1..Len(xs) : xs[i] = c
                  THEN CHOOSE i \in 1..Len(xs) : xs[i] = c ELSE 0

\* .str.upper()
StrUpper(txt) ==
    [i \in 1..Len(txt) |->
        IF IndexOf(LowerLetters, txt[i]) > 0
        THEN UpperLetters[IndexOf(LowerLetters, txt[i])] ELSE txt[i]]

\* .str.strip()
StrStrip(txt) ==
    LET keep == {i \in 1..Len(txt) : txt[i] \notin Whitespace}
    IN  IF keep = {} THEN <<>>
        ELSE LET lo == CHOOSE i \in keep : \A j \in keep : i <= j
                 hi == CHOOSE i \in keep : \A j \in keep : i >= j
             IN  SubSeq(txt, lo, hi)

IsDigits(txt) == \A i \in 1..Len(txt) : IndexOf(Digits, txt[i]) > 0

RECURSIVE DigitsValue(_)
DigitsValue(txt) ==
    IF txt = <<>> THEN 0
    ELSE 10 * DigitsValue(SubSeq(txt, 1, Len(txt) - 1)) + (IndexOf(Digits, txt[Len(txt)]) - 1)

\* pd.to_numeric(cell, errors="coerce"): the number in hundredths, NaN for
\* an empty cell and for text that is no number
to_numeric(txt) ==
    LET neg  == txt # <<>> /\ txt[1] = "-"
        body == IF neg THEN Tail(txt) ELSE txt
        dot  == IndexOf(body, ".")
        ip   == IF dot = 0 THEN body ELSE SubSeq(body, 1, dot - 1)
        fp   == IF dot = 0 THEN <<>> ELSE SubSeq(body, dot + 1, Len(body))
        ok   == /\ Len(ip) + Len(fp) > 0
                /\ IsDigits(ip) /\ IsDigits(fp)
                /\ Len(fp) <= 2
        frac == IF Len(fp) = 1 THEN 10 * DigitsValue(fp) ELSE DigitsValue(fp)
        mag  == 100 * DigitsValue(ip) + frac
    IN  IF ~ok THEN NaN ELSE IF neg THEN -mag ELSE mag

\* lines 11-16: the copy with the columns normalised
OutRow(r) ==
    [player_id |-> r.player_id, market |-> r.market,
     side |-> StrStrip(StrUpper(r.side)),
     line |-> to_numeric(r.line),
     decimal_odds |-> to_numeric(r.decimal_odds)]

Out(table) == [i \in 1..Len(table.rows) |-> OutRow(table.rows[i])]

bad_side(o) == o.side \notin ALLOWED_SIDES

\* odds of exactly 1.0 let through
BadNumBelowOne(o) == o.line = NaN \/ o.decimal_odds = NaN \/ o.decimal_odds < OddsOne

bad_num(o) == o.line = NaN \/ o.decimal_odds = NaN \/ o.decimal_odds <= OddsOne

\* out[bad_side | bad_num]
errs(out) == SelectSeq(out, LAMBDA o : bad_side(o) \/ bad_num(o))

\* missing = [c for c in REQUIRED if c not in df.columns]
MissingRequired(table) == SelectSeq(REQUIRED, LAMBDA c : c \notin table.columns)

validate_odds(table) ==
    IF MissingRequired(table) # <<>>
    THEN [kind |-> "missing_columns", rows |-> <<>>, missing |-> MissingRequired(table)]
    ELSE IF errs(Out(table)) # <<>>
    THEN [kind |-> "invalid_rows", rows |-> errs(Out(table)), missing |-> <<>>]
    ELSE [kind |-> "returned", rows |-> Out(table), missing |-> <<>>]

\* a call that returns
ValidateReturns ==
    /\ validatePc = "call"
    /\ validate_odds(oddsDf).kind = "returned"
    /\ validateOut' = validate_odds(oddsDf)
    /\ validatePc' = "returned"
    /\ UNCHANGED oddsDf
    /\ UNCHANGED <<varsPriors, varsPricing, varsSim, varsPipe, varsCall, varsHttp>>

\* a call that raises SystemExit
ValidateRaises ==
    /\ validatePc = "call"
    /\ validate_odds(oddsDf).kind # "returned"
    /\ validateOut' = validate_odds(oddsDf)
    /\ validatePc' = "raised"
    /\ UNCHANGED oddsDf
    /\ UNCHANGED <<varsPriors, varsPricing, varsSim, varsPipe, varsCall, varsHttp>>

\* ---- the tables handed to validate_odds

DfRow(pid, side, line, price) ==
    [player_id |-> pid, market |-> "PTS", side |-> side, line |-> line,
     decimal_odds |-> price]

DfCandidates ==
    { DfRow("P_A", <<"O", "V", "E", "R">>, <<"3", "6">>, <<"2", ".", "0">>),
      DfRow("P_B", <<" ", "u", "n", "d", "e", "r", " ">>, <<"1", "6", ".", "5">>, <<"1", ".", "0", "1">>),
      DfRow("P_A", <<"P", "U", "S", "H">>, <<"2", "5">>, <<"1", ".", "9">>),
      DfRow("P_B", <<"O", "v", "e", "r">>, <<"a", "b", "c">>, <<"1", ".", "5">>),
      DfRow("P_A", <<"U", "N", "D", "E", "R">>, <<"1", "0">>, <<"1", ".", "0">>),
      DfRow("P_B", <<"O", "V", "E", "R">>, <<"-", "7">>, <<>>) }

RECURSIVE SeqsUpTo(_, _)
SeqsUpTo(S, n) ==
    IF n = 0 THEN {<<>>}
    ELSE SeqsUpTo(S, n - 1) \cup {Append(q, x) : q \in SeqsUpTo(S, n - 1), x \in S}

RequiredSet == {REQUIRED[i] : i \in 1..Len(REQUIRED)}

DfTables ==
    { [columns |-> RequiredSet \cup {"book"}, rows |-> rows] : rows \in SeqsUpTo(DfCandidates, MaxDfRows) }
    \cup
    { [columns |-> RequiredSet \ drop, rows |-> <<r>>] :
        drop \in {{"market"}, {"side", "decimal_odds"}}, r \in DfCandidates }

InitOdds ==
    /\ PriorsIdle
    /\ PricingIdle
    /\ SimIdle
    /\ PipeIdle
    /\ CallIdle
    /\ HttpIdle
    /\ oddsDf \in DfTables
    /\ validatePc = "call"
    /\ validateOut = NoOutcome

NextOdds == ValidateReturns \/ ValidateRaises

SpecOdds == InitOdds /\ [][NextOdds]_vars

\* ---- simulator runs on the belief table of the role-effect test

\* three PTS rows with the same (alpha, beta) that differ in role only
RoleRow(pid, role, alpha, beta) ==
    [player_id |-> pid, stat |-> "PTS", alpha |-> alpha, beta |-> beta,
     minutes_scale |-> MINUTES_SCALE, n_games |-> 10, last_update |-> 1,
     role |-> role, min_mult |-> ROLE_WEIGHTS[role].min_mult,
     rate_mult |-> ROLE_WEIGHTS[role].rate_mult]

RoleTable(alpha, beta) ==
    [exists |-> TRUE,
     rows |-> <<RoleRow("starter_guy", "starter", alpha, beta),
                RoleRow("sixth_guy", "sixth", alpha, beta),
                RoleRow("bench_guy", "bench", alpha, beta)>>]

\* the overrides the test builds: the same baseline minutes, no spread
FlatOverrides ==
    [exists |-> TRUE, columns |-> OvrColumns,
     rows |-> <<[player_id |-> "starter_guy", min_proj |-> 300, min_sd |-> 0],
                [player_id |-> "sixth_guy", min_proj |-> 300, min_sd |-> 0],
                [player_id |-> "bench_guy", min_proj |-> 300, min_sd |-> 0]>>]

InitRoleSim ==
    /\ PriorsIdle
    /\ PricingIdle
    /\ ValidateIdle
    /\ PipeIdle
    /\ CallIdle
    /\ HttpIdle
    /\ simPri \in {RoleTable(5000, 1800), RoleTable(4000, 1500)}
    /\ simOvr \in {NoOverrides, FlatOverrides}
    /\ simDate \in FileSlots
    /\ hashKey \in [Procs -> HashKeys]
    /\ simPc = [p \in Procs |-> "start"]
    /\ rng = [p \in Procs |-> 0]
    /\ paceShock = [p \in Procs |-> 0]
    /\ minutesDraws = [p \in Procs |-> {}]
    /\ rowIdx = [p \in Procs |-> 0]
    /\ outRows = [p \in Procs |-> <<>>]
    /\ predictionsCsv = NoFile

SpecRoleSim == InitRoleSim /\ [][NextSim]_vars

----------------------------------------------------------------------------
(* The three core stages, one of them run at a time: update_priors with    *)
(* the ingestion before it, simulator.main, pricing.main.                  *)

NoStageRunning == pricingPc = "idle" /\ \A p \in Procs : simPc[p] = "idle"

InitStages == InitPriors \/ InitSim \/ InitPricing

NextStages ==
    \/ (NoStageRunning /\ NextPriors)
    \/ NextSim
    \/ NextPricing

SpecStages == InitStages /\ [][NextStages]_vars

----------------------------------------------------------------------------
(* Two pipeline runs, one per run_date, sharing the belief store and the   *)
(* box-score files: update_priors, simulator.main, pricing.main in turn.   *)
(* Run p is the run of date p.  No stage takes a lock.                     *)

\* simulator.main(run_date) from the generator seeding to out_rows
RECURSIVE SimLoop(_, _, _, _, _, _, _)
SimLoop(rows, i, ovr, cache, st, pace, run_date) ==
    IF i > Len(rows) THEN <<>>
    ELSE LET b == LoopBody(rows[i], ovr, cache, st, pace, run_date)
         IN  <<b.row>> \o SimLoop(rows, i + 1, ovr, b.cache, b.rng, pace, run_date)

\* the store file as simulator.main finds it
StoreFile(rows) == [exists |-> rows # <<>>, rows |-> rows]

\* runs/<date>/predictions.csv after simulator.main(run_date), left as it
\* was when the run raises
simulator_main(rows, run_date, key, before) ==
    IF SimStartRaises(StoreFile(rows), NoOverrides) THEN before
    ELSE LET st0 == RngAt(SeedOf(run_date, key), 1)
         IN  [exists |-> TRUE,
              rows |-> SimLoop(rows, 1, NoOverrides, {}, st0,
                               NormalVariate(100, 5, st0), run_date)]

\* a forecast value of predictions.csv (hundredths) on the grid of halves
\* the pricing definitions work on
ToHalves(x) == IF x = NaN THEN NaN ELSE x \div 50

PredOfSim(r) ==
    [player_id |-> r.player_id, stat |-> r.stat, mean |-> ToHalves(r.mean),
     sigma |-> ToHalves(r.sigma), median |-> ToHalves(r.median),
     p10 |-> ToHalves(r.p10), p90 |-> ToHalves(r.p90), minutes |-> r.minutes,
     role |-> r.role, min_mult |-> r.min_mult, rate_mult |-> r.rate_mult]

PredsFileOf(file) ==
    [exists |-> file.exists, rows |-> [i \in 1..Len(file.rows) |-> PredOfSim(file.rows[i])]]

\* the odds CSV both pricing runs are given
PipeOdds ==
    [columns |-> OddsColumns,
     rows |-> <<OddsRow("P_A", "PTS", "OVER", 36, 200),
                OddsRow("P_B", "PRA", "UNDER", 50, 185)>>]

\* runs/<date>/edges.csv after pricing.main(odds, run_date), left as it was
\* when the run raises
pricing_main(predFile, run_date, before) ==
    IF LoadPredictionsRaises(PredsFileOf(predFile)) \/ LoadOddsRaises(PipeOdds) THEN before
    ELSE [exists |-> TRUE,
          rows |-> build_edges(PipeOdds, _load_predictions(PredsFileOf(predFile)), run_date)]

\* update_priors(run_date) on a store it read earlier: the rows it writes
\* a variant that replaces the store by an empty table when no box score is found
UpdatePriorsWritesOnEmpty(pri, files, run_date, current) ==
    IF read_csv_glob(files) = <<>> THEN <<>>
    ELSE UpdatedRows(pri, read_csv_glob(files), run_date)

update_priors(pri, files, run_date, current) ==
    IF read_csv_glob(files) = <<>> THEN current
    ELSE UpdatedRows(pri, read_csv_glob(files), run_date)

\* update_priors, lines 107-114: pri is read
PipeReadStore(p) ==
    /\ pipePc[p] = "read_store"
    /\ pipePri' = [pipePri EXCEPT ![p] = priorsCsv]
    /\ pipePc' = [pipePc EXCEPT ![p] = "write_store"]
    /\ UNCHANGED <<runsDir, store0>>
    /\ UNCHANGED <<varsPriors, varsPricing, varsSim, varsValidate, varsCall, varsHttp>>

\* update_priors, lines 115-180: the batch is read and the store replaced
PipeWriteStore(p) ==
    /\ pipePc[p] = "write_store"
    /\ priorsCsv' = update_priors(pipePri[p], boxFiles, p, priorsCsv)
    /\ pipePc' = [pipePc EXCEPT ![p] = "simulate"]
    /\ UNCHANGED <<pipePri, runsDir, store0>>
    /\ UNCHANGED <<boxFiles, cycles, newSince, lastOp>>
    /\ UNCHANGED <<varsPricing, varsSim, varsValidate, varsCall, varsHttp>>

\* simulator.main(run_date): the store is read, predictions.csv of the date
\* written; a missing or empty store ends the pipeline run
PipeSimulate(p) ==
    /\ pipePc[p] = "simulate"
    /\ runsDir' = [runsDir EXCEPT ![p].predictions =
                      simulator_main(priorsCsv, p, hashKey[p], @)]
    /\ pipePc' = [pipePc EXCEPT ![p] =
                      IF SimStartRaises(StoreFile(priorsCsv), NoOverrides)
                      THEN "failed" ELSE "price"]
    /\ UNCHANGED <<pipePri, store0>>
    /\ UNCHANGED <<varsPriors, varsPricing, varsSim, varsValidate, varsCall, varsHttp>>

\* pricing.main(odds, run_date): predictions.csv of the date is read,
\* edges.csv of the date written
PipePrice(p) ==
    /\ pipePc[p] = "price"
    /\ runsDir' = [runsDir EXCEPT ![p].edges = pricing_main(runsDir[p].predictions, p, @)]
    /\ pipePc' = [pipePc EXCEPT ![p] =
                      IF runsDir'[p].edges.exists THEN "done" ELSE "failed"]
    /\ UNCHANGED <<pipePri, store0>>
    /\ UNCHANGED <<varsPriors, varsPricing, varsSim, varsValidate, varsCall, varsHttp>>

\* ---- the stores and box files the two runs start from

PipeStores == {<<>>, UpdatedRows(<<>>, TaggedBatch, 1)}

PipeBoxFiles ==
    { [d \in FileSlots |-> NoFile] }
    \cup
    { [d \in FileSlots |->
          IF d \in have THEN [exists |-> TRUE, rows |-> _normalize(raw, d)] ELSE NoFile] :
      have \in {{1}, {1, 2}}, raw \in {t \in RawTables : NormalizeMissing(t) = {}} }

InitPipeline ==
    /\ CallIdle
    /\ HttpIdle
    /\ PricingIdle
    /\ SimIdle
    /\ ValidateIdle
    /\ boxFiles \in PipeBoxFiles
    /\ priorsCsv \in PipeStores
    /\ cycles = 0
    /\ newSince = {}
    /\ lastOp = "init"
    /\ pipePc = [p \in Procs |-> "read_store"]
    /\ pipePri = [p \in Procs |-> <<>>]
    /\ runsDir = [d \in FileSlots |-> [predictions |-> NoFile, edges |-> NoFile]]
    /\ store0 = priorsCsv

NextPipeline ==
    \E p \in Procs :
        \/ PipeReadStore(p)
        \/ PipeWriteStore(p)
        \/ PipeSimulate(p)
        \/ PipePrice(p)

SpecPipeline == InitPipeline /\ [][NextPipeline]_vars

----------------------------------------------------------------------------
(* Functions of src/core/priors.py called on their own.                    *)

MaxSeriesLen == 6

\* the role tags a box-score row may carry: the three roles, a tag outside
\* them, and the missing tag
RoleTags == {"starter", "sixth", "bench", "coach", NoRole}

RoleSeries == UNION {[1..n -> RoleTags] : n \in 0..MaxSeriesLen}

StagesIdle == PriorsIdle /\ PricingIdle /\ SimIdle /\ ValidateIdle /\ PipeIdle

\* _resolve_role(series) is called and returns
ResolveRoleCall ==
    /\ callFn = "_resolve_role"
    /\ ~callRet.done
    /\ callRet' = [done |-> TRUE, value |-> _resolve_role(callArg)]
    /\ UNCHANGED <<callFn, callArg>>
    /\ UNCHANGED <<varsPriors, varsPricing, varsSim, varsValidate, varsPipe, varsHttp>>

InitRole ==
    /\ StagesIdle
    /\ HttpIdle
    /\ callFn = "_resolve_role"
    /\ callArg \in RoleSeries
    /\ callRet = NotReturned

NextRole == ResolveRoleCall

SpecRole == InitRole /\ [][NextRole]_vars

\* ---- update_priors on box-score batches that carry role tags

MaxBatchRows == 3

TaggedRow(g, pid, date, role) ==
    [game_id |-> g, player_id |-> pid, date |-> date, minutes |-> 32,
     PTS |-> 16, REB |-> 6, AST |-> 5, role |-> role]

\* box-score rows as the integration test writes them, tagged or not
TaggedCandidates ==
    { TaggedRow("G1", "P_A", d, r) : d \in FileSlots, r \in {"starter", "sixth", "coach", NoRole} }
    \cup { TaggedRow("G1", "P_B", 1, "bench"), TaggedRow("G2", "P_B", 2, NoRole) }

TaggedBatches == SeqsUpTo(TaggedCandidates, MaxBatchRows) \ {<<>>}

\* update_priors(run_date) on the store and the batch it reads: the table
\* it writes is returned
UpdatePriorsCall ==
    /\ callFn = "update_priors"
    /\ ~callRet.done
    /\ callRet' = [done |-> TRUE,
                   value |-> update_priors(callArg.pri, callArg.files, callArg.run_date,
                                           callArg.pri)]
    /\ UNCHANGED <<callFn, callArg>>
    /\ UNCHANGED <<varsPriors, varsPricing, varsSim, varsValidate, varsPipe, varsHttp>>

InitUpdate ==
    /\ StagesIdle
    /\ HttpIdle
    /\ callFn = "update_priors"
    /\ callArg \in { [pri |-> pri, run_date |-> 2,
                      files |-> [d \in FileSlots |->
                                   IF d = 1 THEN [exists |-> TRUE, rows |-> batch] ELSE NoFile]] :
                     pri \in PipeStores, batch \in TaggedBatches }
    /\ callRet = NotReturned

NextUpdate == UpdatePriorsCall

SpecUpdate == InitUpdate /\ [][NextUpdate]_vars

\* ---- build_player_priors(boxscores_df, lookback_games)
\* minutes_mean and minutes_std are hundredths of a minute, the per-minute
\* rates are 1e-4 of a stat unit per minute

MaxGames == 3

ClipLower(x) == IF x < 0 THEN 0 ELSE x

\* mins = to_numeric(minutes).fillna(0).clip(lower=0)
MinsOf(g) == [i \in 1..Len(g) |-> ClipLower(FillNa(g[i].minutes, 0))]

\* (g[stat] / mp).fillna(0).clip(lower=0) of one game, mp the minutes with 0
\* replaced by NaN
PerMinute(x, m) == IF m = 0 \/ x = NaN THEN 0 ELSE ClipLower((x * 10000) \div m)

RatesOf(g, stat) == [i \in 1..Len(g) |-> PerMinute(g[i][stat], MinsOf(g)[i])]

MeanOf(xs) == SumSeq(xs) \div Len(xs)

\* mins.std(ddof=1) if len(mins) > 1 else 0.0
StdOf(xs) ==
    IF Len(xs) <= 1 THEN 0
    ELSE ISqrt(SumSeq([i \in 1..Len(xs) |-> (xs[i] - MeanOf(xs)) * (xs[i] - MeanOf(xs))])
                 \div (Len(xs) - 1))

\* the rate scaled by the minutes multiplier
ScaleRateByMinMult(x, w) == (x * w.min_mult) \div 100

\* pts_pm_mean *= rweights["rate_mult"]
ScaleRate(x, w) == (x * w.rate_mult) \div 100

\* minutes_mean *= rweights["min_mult"]
ScaleMinutes(x, w) == (x * w.min_mult) \div 100

\* the prior dict of one player: g is the player's rows
PlayerPrior(rows, lookback_games) ==
    LET g    == TailSeq(SortByDate(rows), lookback_games)
        mins == [i \in 1..Len(g) |-> 100 * MinsOf(g)[i]]
        role == IF HasRoleColumn(g) THEN _resolve_role(Column(g, "role")) ELSE DEFAULT_ROLE
        w    == ROLE_WEIGHTS[role]
    IN  [minutes_mean |-> ScaleMinutes(MeanOf(mins), w),
         minutes_std  |-> ScaleMinutes(StdOf(mins), w),
         pts_per_min  |-> ScaleRate(MeanOf(RatesOf(g, "PTS")), w),
         reb_per_min  |-> ScaleRate(MeanOf(RatesOf(g, "REB")), w),
         ast_per_min  |-> ScaleRate(MeanOf(RatesOf(g, "AST")), w),
         n_games      |-> Len(g),
         role         |-> role,
         min_mult     |-> w.min_mult,
         rate_mult    |-> w.rate_mult]

PlayersOfFrame(df) == {df[i].player_id : i \in 1..Len(df)}

\* build_player_priors: dict[player_id] -> prior dict
build_player_priors(df, lookback_games) ==
    [pid \in PlayersOfFrame(df) |-> PlayerPrior(RowsOf(df, pid), lookback_games)]

\* the games of one player: (minutes, PTS, REB, AST) per game
GameLines ==
    { [minutes |-> 32, PTS |-> 16, REB |-> 6, AST |-> 5],
      [minutes |-> 34, PTS |-> 18, REB |-> 7, AST |-> 6],
      [minutes |-> 0,  PTS |-> 0,  REB |-> 0, AST |-> 0],
      [minutes |-> 30, PTS |-> 0,  REB |-> 5, AST |-> NaN] }

\* three players with the same games who differ in role only
RoleGuys == <<[player_id |-> "starter_guy", role |-> "starter"],
              [player_id |-> "sixth_guy", role |-> "sixth"],
              [player_id |-> "bench_guy", role |-> "bench"]>>

GuyRows(guy, games) ==
    [i \in 1..Len(games) |->
        [game_id |-> "G", player_id |-> guy.player_id, date |-> i,
         minutes |-> games[i].minutes, PTS |-> games[i].PTS, REB |-> games[i].REB,
         AST |-> games[i].AST, role |-> guy.role]]

RoleFrame(games) ==
    GuyRows(RoleGuys[1], games) \o GuyRows(RoleGuys[2], games) \o GuyRows(RoleGuys[3], games)

BuildPriorsCall ==
    /\ callFn = "build_player_priors"
    /\ ~callRet.done
    /\ callRet' = [done |-> TRUE,
                   value |-> build_player_priors(callArg.df, callArg.lookback_games)]
    /\ UNCHANGED <<callFn, callArg>>
    /\ UNCHANGED <<varsPriors, varsPricing, varsSim, varsValidate, varsPipe, varsHttp>>

InitBuild ==
    /\ StagesIdle
    /\ HttpIdle
    /\ callFn = "build_player_priors"
    /\ callArg \in { [df |-> RoleFrame(games), lookback_games |-> n] :
                     games \in SeqsUpTo(GameLines, MaxGames) \ {<<>>}, n \in {2, 10} }
    /\ callRet = NotReturned

NextBuild == BuildPriorsCall

SpecBuild == InitBuild /\ [][NextBuild]_vars

----------------------------------------------------------------------------
(* The column checks of the stages that read a table.  A call takes the    *)
(* columns of the table; the value returned tells whether the stage        *)
(* raised, whether the error is one the stage raises itself, and the       *)
(* column names its message holds.                                         *)

Passed == [raised |-> FALSE, explicit |-> FALSE, named |-> {}]

\* pricing._load_odds: needed = ["player_id", "market", "side", "line"]
LoadOddsNeeded == <<"player_id", "market", "side", "line">>

\* the loop raises at the first needed column the table lacks
load_odds_check(columns) ==
    LET missing == SelectSeq(LoadOddsNeeded, LAMBDA c : c \notin columns)
    IN  IF missing # <<>>
        THEN [raised |-> TRUE, explicit |-> TRUE, named |-> {missing[1]}]
        ELSE IF "decimal_odds" \notin columns /\ "book_prob" \notin columns
        THEN [raised |-> TRUE, explicit |-> TRUE, named |-> {"decimal_odds", "book_prob"}]
        ELSE Passed

\* odds.validate_odds: SystemExit(f"[odds] missing columns: {missing}")
validate_odds_check(columns) ==
    LET missing == {REQUIRED[i] : i \in 1..Len(REQUIRED)} \ columns
    IN  IF missing # {}
        THEN [raised |-> TRUE, explicit |-> TRUE, named |-> missing]
        ELSE Passed

\* fetch_daily._normalize: SystemExit(f"[normalize] missing columns: {missing}")
normalize_check(columns) ==
    IF NormalizeNeed \ columns # {}
    THEN [raised |-> TRUE, explicit |-> TRUE, named |-> NormalizeNeed \ columns]
    ELSE Passed

\* the columns update_priors reads: groupby("player_id") and the named
\* aggregations of lines 136-142
AggColumns == <<"minutes", "PTS", "REB", "AST", "game_id">>

\* priors.update_priors checks no column: a table without player_id makes
\* groupby raise KeyError('player_id'), a table without an aggregated
\* column makes agg raise a KeyError that names the first such column or
\* all of them, as the pandas release words it
update_priors_checks(columns) ==
    LET missing == SelectSeq(AggColumns, LAMBDA c : c \notin columns)
    IN  IF "player_id" \notin columns
        THEN {[raised |-> TRUE, explicit |-> FALSE, named |-> {"player_id"}]}
        ELSE IF missing # <<>>
        THEN {[raised |-> TRUE, explicit |-> FALSE, named |-> {missing[1]}],
              [raised |-> TRUE, explicit |-> FALSE,
               named |-> {missing[i] : i \in 1..Len(missing)}]}
        ELSE {Passed}

LoadOddsCall ==
    /\ callFn = "_load_odds"
    /\ ~callRet.done
    /\ callRet' = [done |-> TRUE, value |-> load_odds_check(callArg.columns)]
    /\ UNCHANGED <<callFn, callArg>>
    /\ UNCHANGED <<varsPriors, varsPricing, varsSim, varsValidate, varsPipe, varsHttp>>

ValidateOddsCall ==
    /\ callFn = "validate_odds"
    /\ ~callRet.done
    /\ callRet' = [done |-> TRUE, value |-> validate_odds_check(callArg.columns)]
    /\ UNCHANGED <<callFn, callArg>>
    /\ UNCHANGED <<varsPriors, varsPricing, varsSim, varsValidate, varsPipe, varsHttp>>

NormalizeCall ==
    /\ callFn = "_normalize"
    /\ ~callRet.done
    /\ callRet' = [done |-> TRUE, value |-> normalize_check(callArg.columns)]
    /\ UNCHANGED <<callFn, callArg>>
    /\ UNCHANGED <<varsPriors, varsPricing, varsSim, varsValidate, varsPipe, varsHttp>>

UpdatePriorsColumnsCall ==
    /\ callFn = "update_priors_columns"
    /\ ~callRet.done
    /\ \E v \in update_priors_checks(callArg.columns) :
          callRet' = [done |-> TRUE, value |-> v]
    /\ UNCHANGED <<callFn, callArg>>
    /\ UNCHANGED <<varsPriors, varsPricing, varsSim, varsValidate, varsPipe, varsHttp>>

\* the columns a table handed to each reader may hold
ReaderColumns(fn) ==
    CASE fn = "_load_odds" ->
            {LoadOddsNeeded[i] : i \in 1..Len(LoadOddsNeeded)} \cup {"decimal_odds", "book_prob"}
      [] fn = "validate_odds" -> {REQUIRED[i] : i \in 1..Len(REQUIRED)}
      [] fn = "_normalize" -> NormalizeNeed
      [] OTHER -> {AggColumns[i] : i \in 1..Len(AggColumns)} \cup {"player_id"}

Readers == {"_load_odds", "validate_odds", "_normalize", "update_priors_columns"}

InitReaders ==
    /\ StagesIdle
    /\ HttpIdle
    /\ callFn \in Readers
    /\ callArg \in {[columns |-> c] : c \in SUBSET ReaderColumns(callFn)}
    /\ callRet = NotReturned

NextReaders ==
    \/ LoadOddsCall
    \/ ValidateOddsCall
    \/ NormalizeCall
    \/ UpdatePriorsColumnsCall

SpecReaders == InitReaders /\ [][NextReaders]_vars

----------------------------------------------------------------------------
(* Calls of _normal_over_prob and _normal_under_prob on one forecast and   *)
(* one line; mean, sigma and line are halves.                              *)

MaxMeanHalves == 6
MaxSigmaHalves == 3

FairProbsCall ==
    /\ callFn = "_normal_prob"
    /\ ~callRet.done
    /\ callRet' = [done |-> TRUE,
                   value |-> [over  |-> _normal_over_prob(callArg.mean, callArg.sigma,
                                                          callArg.line),
                              under |-> _normal_under_prob(callArg.mean, callArg.sigma,
                                                           callArg.line)]]
    /\ UNCHANGED <<callFn, callArg>>
    /\ UNCHANGED <<varsPriors, varsPricing, varsSim, varsValidate, varsPipe, varsHttp>>

InitProbs ==
    /\ StagesIdle
    /\ HttpIdle
    /\ callFn = "_normal_prob"
    /\ callArg \in {[mean |-> m, sigma |-> sg, line |-> l] :
                      m \in 0..MaxMeanHalves, sg \in 0..MaxSigmaHalves, l \in 0..MaxMeanHalves}
    /\ callRet = NotReturned

NextProbs == FairProbsCall

SpecProbs == InitProbs /\ [][NextProbs]_vars

----------------------------------------------------------------------------
(* src/etl/providers: the retry loops of BrefProvider._get and             *)
(* JsonApiProvider.fetch_boxscores.  A step is one pass of the loop: the   *)
(* request, its response and what the code does with it.  The sleeps       *)
(* between requests take time and change nothing else.                     *)

MaxRetries == 3

\* session.get raised instead of returning a response
Transport == 0

\* what a request can come back with
Responses == {200, 204, 404, 429, 500, 502, 503, 504, Transport}

\* if r.status_code in (429, 500, 502, 503, 504)
RetryStatuses == {429, 500, 502, 503, 504}

\* r.raise_for_status() raises HTTPError for a 4xx or 5xx status
RaiseForStatus(status) == status >= 400

\* the loop ended: raise last_exc if there is one, RuntimeError otherwise
BrefAfterLoop(exc) ==
    IF exc # "none" THEN [kind |-> exc, status |-> 0]
    ELSE [kind |-> "RuntimeError", status |-> 0]

\* BrefProvider._get, lines 133-144: one pass of the loop.  The HTTPError of
\* raise_for_status is raised inside the try and caught by its except
\* clause, as an exception of session.get is
BrefRequest(resp) ==
    /\ provider = "bref"
    /\ httpPc = "loop"
    /\ attempt < maxRetries
    /\ httpLog' = Append(httpLog, resp)
    /\ IF resp = 200
       THEN /\ httpPc' = "returned"
            /\ httpOut' = [kind |-> "returned", status |-> 200]
            /\ UNCHANGED <<attempt, lastExc>>
       ELSE /\ attempt' = attempt + 1
            /\ lastExc' = IF resp = Transport THEN "TransportError"
                          ELSE IF resp \in RetryStatuses THEN lastExc
                          ELSE IF RaiseForStatus(resp) THEN "HTTPError"
                          ELSE lastExc
            /\ UNCHANGED <<httpPc, httpOut>>
    /\ UNCHANGED <<provider, maxRetries>>
    /\ UNCHANGED <<varsPriors, varsPricing, varsSim, varsValidate, varsPipe, varsCall>>

\* BrefProvider._get, lines 145-147: the loop has run max_retries times
BrefExhausted ==
    /\ provider = "bref"
    /\ httpPc = "loop"
    /\ attempt >= maxRetries
    /\ httpPc' = "raised"
    /\ httpOut' = BrefAfterLoop(lastExc)
    /\ UNCHANGED <<provider, maxRetries, attempt, httpLog, lastExc>>
    /\ UNCHANGED <<varsPriors, varsPricing, varsSim, varsValidate, varsPipe, varsCall>>

\* for attempt in range(4)
JSON_ATTEMPTS == 4

\* a set of retried statuses that holds 404 as well
JsonRetryWith404 == {404, 429, 500, 502, 503, 504}

\* if r.status_code in (429, 500, 502, 503, 504)
JsonRetryStatuses == {429, 500, 502, 503, 504}

\* JsonApiProvider.fetch_boxscores, lines 39-48: one pass of the loop; an
\* exception of session.get leaves the function
JsonRequest(resp) ==
    /\ provider = "json"
    /\ httpPc = "loop"
    /\ attempt < JSON_ATTEMPTS
    /\ httpLog' = Append(httpLog, resp)
    /\ IF resp = Transport
       THEN /\ httpPc' = "raised"
            /\ httpOut' = [kind |-> "TransportError", status |-> 0]
            /\ UNCHANGED attempt
       ELSE IF resp = 200
       THEN /\ httpPc' = "returned"
            /\ httpOut' = [kind |-> "returned", status |-> 200]
            /\ UNCHANGED attempt
       ELSE IF resp \in JsonRetryStatuses
       THEN /\ attempt' = attempt + 1
            /\ UNCHANGED <<httpPc, httpOut>>
       ELSE /\ httpPc' = "raised"
            /\ httpOut' = [kind |-> "SystemExit", status |-> resp]
            /\ UNCHANGED attempt
    /\ UNCHANGED <<provider, maxRetries, lastExc>>
    /\ UNCHANGED <<varsPriors, varsPricing, varsSim, varsValidate, varsPipe, varsCall>>

\* line 49: raise SystemExit("[etl/json] exhausted retries")
JsonExhausted ==
    /\ provider = "json"
    /\ httpPc = "loop"
    /\ attempt >= JSON_ATTEMPTS
    /\ httpPc' = "raised"
    /\ httpOut' = [kind |-> "exhausted retries", status |-> 0]
    /\ UNCHANGED <<provider, maxRetries, attempt, httpLog, lastExc>>
    /\ UNCHANGED <<varsPriors, varsPricing, varsSim, varsValidate, varsPipe, varsCall>>

\* a fetch is entered: _get with max_retries as configured, fetch_boxscores
InitHttp ==
    /\ PriorsIdle /\ PricingIdle /\ SimIdle /\ ValidateIdle /\ PipeIdle /\ CallIdle
    /\ provider \in {"bref", "json"}
    /\ maxRetries \in IF provider = "bref" THEN 0..MaxRetries ELSE {0}
    /\ attempt = 0
    /\ httpLog = <<>>
    /\ lastExc = "none"
    /\ httpPc = "loop"
    /\ httpOut = NoFetch

NextHttp ==
    \/ \E resp \in Responses : BrefRequest(resp)
    \/ BrefExhausted
    \/ \E resp \in Responses : JsonRequest(resp)
    \/ JsonExhausted

SpecHttp == InitHttp /\ [][NextHttp]_vars

\* every request ends, by its response or by the timeout of 30 seconds, so
\* a fetch that can take a step takes one
SpecHttpLive == InitHttp /\ [][NextHttp]_vars /\ WF_vars(NextHttp)

----------------------------------------------------------------------------
(* Claims about the belief store, checked under SpecPriors.                *)

\* a step of update_priors that wrote the store
UpdateStep == cycles' = cycles + 1 /\ lastOp' = "update"

\* the rows of the store for one (player, stat)
StoreRows(tbl, pid, stat) ==
    {j \in 1..Len(tbl) : tbl[j].player_id = pid /\ tbl[j].stat = stat}

\* the total of one column over a player's rows of a batch
BatchTotal(df, pid, f) ==
    SumSeq([i \in 1..Len(RowsOf(df, pid)) |-> RowsOf(df, pid)[i][f]])

\* the belief a (player, stat) has before an update: its row, else the seed
BeliefBefore(tbl, pid, stat) ==
    IF StoreRows(tbl, pid, stat) # {}
    THEN LET j == CHOOSE j \in StoreRows(tbl, pid, stat) : TRUE
         IN  [alpha |-> tbl[j].alpha, beta |-> tbl[j].beta]
    ELSE PRIOR_BY_STAT[stat]

StatSet == {Stats[i] : i \in 1..Len(Stats)}

\* C1: update_priors writes, for every player of the batch and every stat,
\* alpha1 = alpha0 + x and beta1 = beta0 + m, with (alpha0, beta0) the
\* existing row or the seed, x the stat total and m the minutes total of
\* the player's rows in the batch.
C1_ConjugateUpdate ==
    [][UpdateStep =>
        LET df == read_csv_glob(boxFiles)
        IN  \A pid \in Players : \A stat \in StatSet :
              RowsOf(df, pid) # <<>> =>
                /\ Cardinality(StoreRows(priorsCsv', pid, stat)) = 1
                /\ \A j \in StoreRows(priorsCsv', pid, stat) :
                     /\ priorsCsv'[j].alpha =
                          BeliefBefore(priorsCsv, pid, stat).alpha + BatchTotal(df, pid, stat)
                     /\ priorsCsv'[j].beta =
                          BeliefBefore(priorsCsv, pid, stat).beta + BatchTotal(df, pid, "minutes")]_vars

\* C1 witness: a second update cycle has folded a batch into existing rows
C1_Witness ==
    /\ lastOp = "update"
    /\ cycles = 2
    /\ \E j \in 1..Len(priorsCsv) :
         /\ priorsCsv[j].stat = "PTS"
         /\ priorsCsv[j].alpha > PRIOR_BY_STAT["PTS"].alpha + 24
         /\ priorsCsv[j].beta > PRIOR_BY_STAT["PTS"].beta + 34

\* the game rows supplied since the previous update cycle
NewRows == LET sel == [d \in FileSlots |->
                         IF d \in newSince THEN boxFiles[d] ELSE NoFile]
           IN  read_csv_glob(sel)

\* C2: each game row is folded into a player's (alpha, beta) exactly once:
\* an update cycle adds only the games supplied since the previous update,
\* never games the existing beliefs already hold.
C2_GamesCountedOnce ==
    [][UpdateStep =>
        \A pid \in Players : \A stat \in StatSet :
          \A j \in StoreRows(priorsCsv', pid, stat) :
            /\ priorsCsv'[j].alpha =
                 BeliefBefore(priorsCsv, pid, stat).alpha + BatchTotal(NewRows, pid, stat)
            /\ priorsCsv'[j].beta =
                 BeliefBefore(priorsCsv, pid, stat).beta + BatchTotal(NewRows, pid, "minutes")]_vars

\* C3: a (player, stat) belief row is never deleted: every row of the store
\* before a step is still in the store after it.
C3_RowsNeverDeleted ==
    [][\A j \in 1..Len(priorsCsv) :
         StoreRows(priorsCsv', priorsCsv[j].player_id, priorsCsv[j].stat) # {}]_vars

----------------------------------------------------------------------------
(* Claims about a pricing run, checked under SpecPricing.                  *)

EdgesBuilt == pricingPc \in {"edges", "written"}

\* a row build_edges priced: it has a fair probability
Priced(e) == e.fair_p # NaN

\* C4: for every priced row ev = decimal_odds * fair_p - 1 with the book's
\* decimal odds, so odds above 1 / fair_p give ev > 0 and odds below it
\* give ev < 0.
C4_EvFromBookOdds ==
    EdgesBuilt =>
      \A i \in 1..Len(edges) :
        LET e == edges[i]
        IN  (Priced(e) /\ e.decimal_odds # NaN) =>
              /\ e.ev # NaN
              /\ e.ev + EvOne = e.decimal_odds * e.fair_p
              /\ (e.fair_p > 0 /\ e.decimal_odds * e.fair_p > EvOne) => e.ev > 0
              /\ (e.fair_p > 0 /\ e.decimal_odds * e.fair_p < EvOne) => e.ev < 0

\* C4 witness: an edge table with a positive-ev row and a negative-ev row
C4_Witness ==
    /\ pricingPc = "written"
    /\ \E i \in 1..Len(edges) : Priced(edges[i]) /\ edges[i].ev # NaN /\ edges[i].ev > 0
    /\ \E i \in 1..Len(edges) : Priced(edges[i]) /\ edges[i].ev # NaN /\ edges[i].ev < 0

\* C5: for finite (mean, sigma, line), a negligible sigma gives the step
\* function (OVER: mean > line, UNDER: mean < line); otherwise
\* P(OVER) = 1 - Phi(z) and P(UNDER) = Phi(z) with z = (line - mean) / sigma,
\* so a line at the mean with sigma > 0 gives 0.5 on both sides.
C5_FairProbability ==
    EdgesBuilt =>
      \A i \in 1..Len(edges) :
        LET e    == edges[i]
            over == Lower(e.side) = "over"
            z2   == Quot(2 * (e.line - e.mean), e.sigma)
        IN  (e.mean # NaN /\ e.sigma # NaN /\ e.line # NaN
               /\ Lower(e.side) \in {"over", "under"}) =>
              /\ e.sigma <= 0 =>
                   e.fair_p = IF over THEN (IF e.mean > e.line THEN ProbOne ELSE 0)
                              ELSE (IF e.mean < e.line THEN ProbOne ELSE 0)
              /\ e.sigma > 0 =>
                   e.fair_p = IF over THEN ProbOne - _norm_cdf(z2) ELSE _norm_cdf(z2)
              /\ (e.sigma > 0 /\ e.line = e.mean) => 2 * e.fair_p = ProbOne

\* C5 witness: a degenerate row with the line at the mean priced 0, an OVER
\* and an UNDER row with sigma > 0 and the line at the mean priced 0.5
C5_Witness ==
    /\ pricingPc = "written"
    /\ \E i \in 1..Len(edges) :
         /\ edges[i].sigma = 0 /\ edges[i].mean = edges[i].line /\ edges[i].fair_p = 0
    /\ \E i \in 1..Len(edges) :
         /\ edges[i].sigma # NaN /\ edges[i].sigma > 0 /\ edges[i].mean = edges[i].line
         /\ Lower(edges[i].side) = "over" /\ 2 * edges[i].fair_p = ProbOne
    /\ \E i \in 1..Len(edges) :
         /\ edges[i].sigma # NaN /\ edges[i].sigma > 0 /\ edges[i].mean = edges[i].line
         /\ Lower(edges[i].side) = "under" /\ 2 * edges[i].fair_p = ProbOne

\* a wager line has a forecast of its (player_id, market)
HasForecast(pr, o) ==
    \E j \in 1..Len(pr) : pr[j].player_id = o.player_id /\ pr[j].market = o.market

\* C7: a wager line whose (player_id, market) has no forecast produces no
\* PricedEdge row: the edge table written holds rows only for wager lines
\* that matched a forecast.
C7_UnmatchedLineDropped ==
    pricingPc = "written" =>
      \A i \in 1..Len(edgesCsv.rows) : HasForecast(preds, edgesCsv.rows[i])

\* the rows _with_composites appended to the frame it was given
Synthesized == {i \in 1..Len(preds) : i > Len(predsCsv.rows)}

\* the value a player's base-stat forecast gives, NaN when there is none
BaseValue(pid, stat, f) ==
    LET df == Repaired(predsCsv)
        at == {j \in 1..Len(df) : df[j].player_id = pid /\ df[j].market = stat}
    IN  IF at = {} THEN NaN ELSE df[CHOOSE j \in at : TRUE][f]

ConstituentSet(mkt) == {Constituents(mkt)[i] : i \in 1..Len(Constituents(mkt))}

RECURSIVE SumOver(_, _, _)
SumOver(S, pid, f) ==
    IF S = {} THEN 0
    ELSE LET c == CHOOSE c \in S : TRUE
             v == BaseValue(pid, c, f)
         IN  (IF v = NaN THEN 0 ELSE IF f = "sigma" THEN v * v ELSE v)
             + SumOver(S \ {c}, pid, f)

\* C9: a synthesized composite row has mean = the sum of the player's
\* constituent means (a missing one counted as 0) and sigma = the square
\* root of the sum of the squares of the available constituent sigmas.
C9_CompositeMeanSigma ==
    pricingPc \in {"preds", "odds", "edges", "written"} =>
      \A i \in Synthesized :
        LET r  == preds[i]
            cs == ConstituentSet(r.market)
            sq == SumOver(cs, r.player_id, "sigma")
        IN  /\ r.market \in Composites
            /\ r.mean = SumOver(cs, r.player_id, "mean")
            /\ IF \A c \in cs : BaseValue(r.player_id, c, "sigma") = NaN
               THEN r.sigma = NaN
               ELSE r.sigma # NaN /\ r.sigma * r.sigma <= sq
                    /\ sq < (r.sigma + 1) * (r.sigma + 1)

\* C9 witness: sigmas 3.0 and 4.0 (6 and 8 halves) combined into 5.0, and a
\* composite of a player with a missing constituent
C9_Witness ==
    /\ pricingPc = "preds"
    /\ \E i \in Synthesized :
         /\ preds[i].player_id = "P_A" /\ preds[i].market = "PA"
         /\ BaseValue("P_A", "PTS", "sigma") = 6 /\ BaseValue("P_A", "AST", "sigma") = 8
         /\ preds[i].sigma = 10 /\ preds[i].mean = 50
    /\ \E i \in Synthesized :
         /\ preds[i].player_id = "P_B" /\ preds[i].market = "PRA"
         /\ BaseValue("P_B", "AST", "mean") = NaN
         /\ preds[i].mean = BaseValue("P_B", "PTS", "mean") + BaseValue("P_B", "REB", "mean")

----------------------------------------------------------------------------
(* Claims about the simulator, checked under SpecSim.  The two processes   *)
(* are two runs of main on the same belief table, the same overrides, the  *)
(* same draw count and the same run_date.                                  *)

BothDone == \A p \in Procs : simPc[p] = "done"

\* C6: two runs with the same inputs and the same run_date, executed in
\* different processes, produce identical forecast summaries
C6_SameDateSameForecasts ==
    BothDone => outRows[1] = outRows[2]

RowsOfPlayer(rows, pid) == SelectSeq(rows, LAMBDA r : r.player_id = pid)

\* the step in which process p handles one belief row
RowStep(p) == simPc[p] = "loop" /\ rowIdx'[p] = rowIdx[p] + 1

\* C8: within a run a minutes value is drawn once per player, at the first
\* of the player's belief rows; every later row of the player carries that
\* same value, and the value lies in [6, 44] (60..440 tenths)
C8_MinutesOncePerPlayer ==
    [][\A p \in Procs :
          RowStep(p) =>
            LET new  == outRows'[p][Len(outRows'[p])]
                pid  == new.player_id
                seen == RowsOfPlayer(outRows[p], pid)
            IN  /\ Len(outRows'[p]) = Len(outRows[p]) + 1
                /\ new.minutes >= MIN_CLIP_LO
                /\ new.minutes <= MIN_CLIP_HI
                /\ new.minutes = CacheGet(minutesDraws'[p], pid)
                /\ Cardinality({c \in minutesDraws'[p] : c.pid = pid}) = 1
                /\ IF seen # <<>>
                   THEN /\ minutesDraws'[p] = minutesDraws[p]
                        /\ \A i \in 1..Len(seen) : seen[i].minutes = new.minutes
                   ELSE /\ ~CacheHas(minutesDraws[p], pid)
                        /\ minutesDraws'[p] = minutesDraws[p] \cup {[pid |-> pid, minutes |-> new.minutes]}]_vars

\* a run that has written three rows of one player, all with the one clipped
\* minutes value, and rows of a second player with another value
C8_Witness ==
    \E p \in Procs :
        /\ Len(RowsOfPlayer(outRows[p], "P_A")) = 3
        /\ \A i \in 1..3 : RowsOfPlayer(outRows[p], "P_A")[i].minutes = MIN_CLIP_HI
        /\ Len(RowsOfPlayer(outRows[p], "P_B")) >= 2
        /\ RowsOfPlayer(outRows[p], "P_B")[1].minutes \notin {MIN_CLIP_HI, MIN_CLIP_LO}

----------------------------------------------------------------------------
(* Claims about validate_odds, checked under SpecOdds.                     *)

\* a row the rules reject: side outside {OVER, UNDER} after trimming and
\* upper-casing, a non-numeric line, decimal_odds non-numeric or <= 1.0
Offending(r) ==
    \/ StrStrip(StrUpper(r.side)) \notin {<<"O", "V", "E", "R">>, <<"U", "N", "D", "E", "R">>}
    \/ to_numeric(r.line) = NaN
    \/ to_numeric(r.decimal_odds) = NaN
    \/ to_numeric(r.decimal_odds) <= 100

OffendingAt(table) == {i \in 1..Len(table.rows) : Offending(table.rows[i])}

HasSchema(table) == \A i \in 1..Len(REQUIRED) : REQUIRED[i] \in table.columns

\* the k-th smallest member of a set of positions
RECURSIVE KthOf(_, _)
KthOf(S, k) ==
    LET m == CHOOSE x \in S : \A y \in S : x <= y
    IN  IF k = 1 THEN m ELSE KthOf(S \ {m}, k - 1)

----------------------------------------------------------------------------
(* Claims about input validation and output of a pricing run, checked      *)
(* under SpecPricing.                                                      *)

\* a wager line the rules reject: side outside {OVER, UNDER}, or decimal
\* odds present and <= 1.0
InvalidLine(o) ==
    \/ Lower(o.side) \notin {"over", "under"}
    \/ (o.decimal_odds # NaN /\ o.decimal_odds <= OddsOne)

\* C11: a pricing run whose wager-line input holds an invalid row rejects
\* the input and writes no edge table, so no output row is emitted for an
\* invalid wager line
C11_InvalidLinesRejected ==
    /\ (\E i \in 1..Len(oddsCsv.rows) : InvalidLine(oddsCsv.rows[i])) => ~edgesCsv.exists
    /\ edgesCsv.exists => \A i \in 1..Len(edgesCsv.rows) : ~InvalidLine(edgesCsv.rows[i])

\* C12: every priced row of the edge table has a fair probability strictly
\* inside (0, 1) (clamped into [1e-9, 1 - 1e-9]) and carries the fair odds
\* 1 / fair probability, the degenerate case sigma <= 1e-8 included
C12_FairProbClamped ==
    EdgesBuilt =>
      \A i \in 1..Len(edges) :
        Priced(edges[i]) =>
          /\ edges[i].fair_p > 0
          /\ edges[i].fair_p < ProbOne
          /\ "fair_odds" \in DOMAIN edges[i]

----------------------------------------------------------------------------
(* Claims about concurrent pipeline runs, checked under SpecPipeline.      *)

PipeEnded == \A p \in Procs : pipePc[p] \in {"done", "failed"}

\* the store and the per-date files after the run of date a, then the run
\* of date b, each run from its first statement to its last
SerialOutcome(a, b) ==
    LET s1 == update_priors(store0, boxFiles, a, store0)
        p1 == simulator_main(s1, a, hashKey[a], NoFile)
        e1 == IF p1.exists THEN pricing_main(p1, a, NoFile) ELSE NoFile
        s2 == update_priors(s1, boxFiles, b, s1)
        p2 == simulator_main(s2, b, hashKey[b], NoFile)
        e2 == IF p2.exists THEN pricing_main(p2, b, NoFile) ELSE NoFile
    IN  [store |-> s2,
         runs |-> [d \in FileSlots |->
                     IF d = a THEN [predictions |-> p1, edges |-> e1]
                     ELSE [predictions |-> p2, edges |-> e2]]]

\* C13: two pipeline runs for different run_dates, interleaved arbitrarily
\* and without locks, end in the belief store and the per-date files of one
\* of the two serial executions: no run's belief update is lost
C13_SerializableRuns ==
    PipeEnded =>
      \E a \in Procs, b \in Procs :
         /\ a # b
         /\ priorsCsv = SerialOutcome(a, b).store
         /\ runsDir = SerialOutcome(a, b).runs

----------------------------------------------------------------------------
(* Claims about the output files of the stages, checked under SpecStages.  *)

MissingOrEmpty(f) == ~f.exists \/ f.rows = <<>>

\* the belief rows and the forecast rows are the same (player, stat) pairs
SameKeys(beliefs, forecasts) ==
    /\ Len(forecasts) = Len(beliefs)
    /\ \A i \in 1..Len(beliefs) :
         /\ forecasts[i].player_id = beliefs[i].player_id
         /\ forecasts[i].stat = beliefs[i].stat

\* C14: each stage writes its output file in one final step once all rows
\* are computed: predictions.csv changes only when a run ends its loop and
\* then holds a row per belief row, edges.csv only at the last statement of
\* a pricing run and then holds a row per wager line, the store only to a
\* full table of the batch; a simulator run on a missing or empty belief
\* table (or a malformed overrides file) leaves predictions.csv as it was
C14_OutputWrittenLast ==
    [][/\ (predictionsCsv' # predictionsCsv) =>
             \E p \in Procs :
                /\ simPc[p] = "loop" /\ simPc'[p] = "done"
                /\ predictionsCsv'.exists
                /\ SameKeys(simPri.rows, predictionsCsv'.rows)
       /\ (MissingOrEmpty(simPri) \/ (simOvr.exists /\ "player_id" \notin simOvr.columns)) =>
             predictionsCsv' = predictionsCsv
       /\ (edgesCsv' # edgesCsv) =>
             /\ pricingPc = "edges" /\ pricingPc' = "written"
             /\ predsCsv.exists
             /\ edgesCsv'.exists
             /\ Len(edgesCsv'.rows) = Len(oddsCsv.rows)
       /\ (priorsCsv' # priorsCsv) =>
             /\ lastOp' = "update"
             /\ Len(priorsCsv') = Len(Stats) * Len(BatchPlayers(read_csv_glob(boxFiles)))]_vars

\* a simulator run that found an empty belief table and exited, the
\* predictions.csv of an earlier run still in place
C14_Witness ==
    /\ simPri.exists /\ simPri.rows = <<>>
    /\ \A p \in Procs : simPc[p] = "failed"
    /\ predictionsCsv = OldPredictions

----------------------------------------------------------------------------
(* Claims about _resolve_role, checked under SpecRole.                     *)

KnownRoles == {"starter", "sixth", "bench"}

OrBench(r) == IF r \in KnownRoles THEN r ELSE "bench"

\* the positions of the last five entries of a series, and of its tags
LastFive(series) == {i \in 1..Len(series) : i > Len(series) - 5}
Tagged(series, S) == {i \in S : series[i] # NoRole}

\* the most frequent tags among the positions S
MostFrequent(series, S) ==
    LET n(r) == Cardinality({i \in S : series[i] = r})
    IN  {series[i] : i \in {j \in S : \A k \in S : n(series[k]) <= n(series[j])}}

----------------------------------------------------------------------------
(* Claims about the roles update_priors writes, checked under SpecUpdate.  *)

\* the batch a call of update_priors read
BatchOf(arg) == read_csv_glob(arg.files)

\* the role tags of a player's rows of the batch, oldest first
TagsOf(batch, pid) == Column(SortByDate(RowsOf(batch, pid)), "role")

\* C16: every belief row update_priors writes has a role in {starter,
\* sixth, bench}, the role resolved for its player (bench when the batch has
\* no role tags), and the multipliers of that role: starter 1.00/1.00, sixth
\* 0.88/1.02, bench 0.70/0.98
C16_RoleAndMultipliers ==
    (callFn = "update_priors" /\ callRet.done) =>
        \A i \in 1..Len(callRet.value) :
            LET row == callRet.value[i]
            IN  /\ row.role \in {"starter", "sixth", "bench"}
                /\ row.role = _resolve_role(TagsOf(BatchOf(callArg), row.player_id))
                /\ row.role = "starter" => (row.min_mult = 100 /\ row.rate_mult = 100)
                /\ row.role = "sixth" => (row.min_mult = 88 /\ row.rate_mult = 102)
                /\ row.role = "bench" => (row.min_mult = 70 /\ row.rate_mult = 98)

\* a table written with a starter by tags, a bench player by default, and
\* the multipliers of both
C16_Witness ==
    /\ callFn = "update_priors" /\ callRet.done
    /\ \E i \in 1..Len(callRet.value) :
         /\ callRet.value[i].role = "sixth" /\ callRet.value[i].min_mult = 88
         /\ callRet.value[i].player_id = "P_A"
    /\ \E i \in 1..Len(callRet.value) :
         /\ callRet.value[i].role = "bench" /\ callRet.value[i].rate_mult = 98
         /\ callRet.value[i].player_id = "P_B"
         /\ \A j \in 1..Len(BatchOf(callArg)) :
              BatchOf(callArg)[j].player_id = "P_B" => BatchOf(callArg)[j].role = NoRole

----------------------------------------------------------------------------
(* Claims about build_player_priors, checked under SpecBuild.              *)

BuildReturned == callFn = "build_player_priors" /\ callRet.done

PriorOf(pid) == callRet.value[pid]

RateKeys == {"pts_per_min", "reb_per_min", "ast_per_min"}

RolesResolved ==
    \A i \in 1..Len(RoleGuys) : PriorOf(RoleGuys[i].player_id).role = RoleGuys[i].role

\* C17 as stated: for three players with the same games who differ in role
\* only, the starter's scaled minutes_mean and per-minute rates are >= those
\* of the sixth man and >= those of the bench player, and each resolved role
\* is the input role
C17_StarterAtLeastBoth ==
    BuildReturned =>
        /\ PriorOf("starter_guy").minutes_mean >= PriorOf("sixth_guy").minutes_mean
        /\ PriorOf("starter_guy").minutes_mean >= PriorOf("bench_guy").minutes_mean
        /\ \A k \in RateKeys :
              /\ PriorOf("starter_guy")[k] >= PriorOf("sixth_guy")[k]
              /\ PriorOf("starter_guy")[k] >= PriorOf("bench_guy")[k]
        /\ RolesResolved

\* C17 amended: minutes_mean is ordered starter >= sixth >= bench; the
\* per-minute rates are ordered sixth >= starter >= bench, following the
\* rate multipliers 1.02 / 1.00 / 0.98; each resolved role is the input role
C17_OrderedByRoleTable ==
    BuildReturned =>
        /\ PriorOf("starter_guy").minutes_mean >= PriorOf("sixth_guy").minutes_mean
        /\ PriorOf("sixth_guy").minutes_mean >= PriorOf("bench_guy").minutes_mean
        /\ \A k \in RateKeys :
              /\ PriorOf("sixth_guy")[k] >= PriorOf("starter_guy")[k]
              /\ PriorOf("starter_guy")[k] >= PriorOf("bench_guy")[k]
        /\ RolesResolved

\* priors built from games with points scored: the sixth man's scoring rate
\* is above the starter's, the starter's above the bench player's
C17_Witness ==
    /\ BuildReturned
    /\ PriorOf("sixth_guy").pts_per_min > PriorOf("starter_guy").pts_per_min
    /\ PriorOf("starter_guy").pts_per_min > PriorOf("bench_guy").pts_per_min
    /\ PriorOf("starter_guy").minutes_mean > PriorOf("sixth_guy").minutes_mean
    /\ PriorOf("starter_guy").n_games = 2
    /\ Len(callArg.df) = 9

----------------------------------------------------------------------------
(* Claims about the role effect in the simulator, checked under            *)
(* SpecRoleSim.                                                            *)

\* the simulated mean of a player's PTS row in the out_rows of run p
SimMean(p, pid) == RowsOfPlayer(outRows[p], pid)[1].mean

\* C18: for three belief rows that differ only in the role multipliers,
\* every run yields simulated means with starter >= sixth > bench, whatever
\* minutes and pace shock the run draws
C18_MeansFollowRoles ==
    \A p \in Procs :
        simPc[p] = "done" =>
            /\ SimMean(p, "starter_guy") >= SimMean(p, "sixth_guy")
            /\ SimMean(p, "sixth_guy") > SimMean(p, "bench_guy")

\* the same ordering with a factor of two allowed for sampling error
MeansFollowRolesWithin2 ==
    \A p \in Procs :
        simPc[p] = "done" =>
            /\ 2 * SimMean(p, "starter_guy") >= SimMean(p, "sixth_guy")
            /\ 2 * SimMean(p, "sixth_guy") > SimMean(p, "bench_guy")

----------------------------------------------------------------------------
(* Claims about the belief parameters, checked under SpecIngest.           *)

\* C19: after any sequence of update cycles from the seed priors every
\* belief row has alpha > 0 and beta > 0, for every batch the ingestion
\* layer can hand to update_priors
C19_ShapeAndRatePositive ==
    \A i \in 1..Len(priorsCsv) : priorsCsv[i].alpha > 0 /\ priorsCsv[i].beta > 0

----------------------------------------------------------------------------
(* Claims about update_priors without input, checked under SpecPipeline.   *)

\* C20: when no box-score input is found update_priors is a no-op: the step
\* that ends update_priors leaves the belief store exactly as it was, so
\* nothing is written and no belief row is created
C20_NoInputNoOp ==
    [][\A p \in Procs :
          (/\ pipePc[p] = "write_store"
           /\ pipePc'[p] # "write_store"
           /\ read_csv_glob(boxFiles) = <<>>)
          => priorsCsv' = priorsCsv]_vars

\* a run has finished update_priors with no box score present and a store
\* that already held rows
C20_Witness ==
    /\ read_csv_glob(boxFiles) = <<>>
    /\ priorsCsv # <<>>
    /\ \E p \in Procs : pipePc[p] \notin {"read_store", "write_store"}

----------------------------------------------------------------------------
(* Claims about the minutes parameters of a simulator run, SpecSim.        *)

\* the override rows written for a player
OverridesOf(pid) ==
    IF simOvr.exists THEN SelectSeq(simOvr.rows, LAMBDA r : r.player_id = pid) ELSE <<>>

\* the (mean, sd) pair the minutes of a belief row are to be drawn from:
\* the override pair of the player, else (30, 4), scaled by min_mult
ScaledPair(row) ==
    LET o == OverridesOf(row.player_id)
        proj == IF o = <<>> THEN 300 ELSE o[1].min_proj
        sd   == IF o = <<>> THEN 40 ELSE o[1].min_sd
    IN  [mu |-> (proj * row.min_mult) \div 100, sd |-> (sd * row.min_mult) \div 100]

\* the override pair of the player is complete, or the player has none
PairGiven(pid) ==
    OverridesOf(pid) = <<>>
    \/ (OverridesOf(pid)[1].min_proj # NaN /\ OverridesOf(pid)[1].min_sd # NaN)

PriPlayers == {simPri.rows[i].player_id : i \in 1..Len(simPri.rows)}

\* the override rows of players the belief table does not hold
AbsentOverrides ==
    IF simOvr.exists
    THEN {i \in 1..Len(simOvr.rows) : simOvr.rows[i].player_id \notin PriPlayers}
    ELSE {}

\* the overrides with the rows of absent players removed
KnownOverrides ==
    [simOvr EXCEPT !.rows = SelectSeq(simOvr.rows, LAMBDA r : r.player_id \in PriPlayers)]

----------------------------------------------------------------------------
(* Claims about the rationale of a priced row, checked under SpecPricing.  *)

\* a priced row with role, both multipliers, minutes, mean and line
AllAvailable(e) ==
    /\ e.role \notin {"", NoRole}
    /\ e.min_mult # NaN /\ e.rate_mult # NaN
    /\ e.minutes # NaN /\ e.mean # NaN /\ e.line # NaN

\* a numeral of n units of 10^-dec with its sign text
Numeral(sign, n, dec) == [kind |-> "num", txt |-> sign, num |-> n, dec |-> dec]

PartsNamed(parts, name) == {k \in 1..Len(parts) : parts[k].part = name}

\* the text holds the token somewhere
HasToken(text, tok) ==
    \E k \in 1..Len(text) : \E j \in 1..Len(text[k]) : text[k][j] = tok

\* C23: for every row priced by build_edges the rationale holds a part for
\* a field only if the field is available for the row: no role, proj_min,
\* sim_mean, delta or sigma part for an absent field, no nan text, and the
\* rationale is n/a when no field of the forecast is available
C23_AbsentFieldsOmitted ==
    pricingPc \in {"edges", "written"} =>
      \A i \in 1..Len(edges) :
          LET e == edges[i]
              parts == e.rationale
              text == RationaleText(parts)
              hasRole == e.role \notin {"", NoRole}
          IN  /\ PartsNamed(parts, "role") # {} => hasRole
              /\ PartsNamed(parts, "proj_min") # {} => e.minutes # NaN
              /\ PartsNamed(parts, "sim_mean") # {} => e.mean # NaN
              /\ PartsNamed(parts, "delta") # {} => (e.mean # NaN /\ e.line # NaN)
              /\ HasToken(text, Lit("method=Normal(s=")) => e.sigma # NaN
              /\ ~HasToken(text, Lit("nan"))
              /\ ~HasToken(text, Lit("+nan"))
              /\ ~HasToken(text, Lit(NoRole))
              /\ (~hasRole /\ e.minutes = NaN /\ e.mean = NaN /\ e.sigma = NaN)
                    => text = << <<Lit("n/a")>> >>

----------------------------------------------------------------------------
(* Claims about the column checks, checked under SpecReaders.              *)

\* the columns each reader requires
RequiredOf(fn) ==
    CASE fn = "_load_odds" -> {"player_id", "market", "side", "line"}
      [] fn = "validate_odds" -> {"player_id", "market", "side", "line", "decimal_odds"}
      [] fn = "_normalize" ->
            {"game_id", "player_id", "team_id", "opp_id", "minutes", "PTS", "REB", "AST"}
      [] OTHER -> {"game_id", "player_id", "minutes", "PTS", "REB", "AST"}

\* C24: every stage that reads an input table rejects a table lacking a
\* required column with an explicit error that names every missing column
C24_MissingColumnsNamed ==
    callRet.done =>
       LET missing == RequiredOf(callFn) \ callArg.columns
       IN  missing # {} =>
              /\ callRet.value.raised
              /\ callRet.value.explicit
              /\ missing \subseteq callRet.value.named

----------------------------------------------------------------------------
(* Claims about the written edges table, checked under SpecPricing.        *)

\* C25: the priced edges a pricing run writes are sorted by ev, descending:
\* of two consecutive rows with an ev the first has the greater or equal ev
C25_SortedByEvDescending ==
    pricingPc = "written" =>
      \A i \in 1..(Len(edgesCsv.rows) - 1) :
         (edgesCsv.rows[i].ev # NaN /\ edgesCsv.rows[i + 1].ev # NaN)
            => edgesCsv.rows[i].ev >= edgesCsv.rows[i + 1].ev

\* C26: composite synthesis adds a composite row only where that
\* (player_id, market) is not yet present and leaves the rows it was given
\* unchanged, so the forecast table it returns holds no (player_id, market)
\* pair twice
C26_NoDuplicatePairs ==
    pricingPc \in {"preds", "odds", "edges", "written"} =>
      /\ \A i, j \in 1..Len(preds) :
            (i < j) => ~(/\ preds[i].player_id = preds[j].player_id
                         /\ preds[i].market = preds[j].market)
      /\ SubSeq(preds, 1, Len(predsCsv.rows)) = Repaired(predsCsv)

----------------------------------------------------------------------------
(* Claims about the two fair probabilities of one line, SpecProbs.         *)

\* C27 as stated: for every finite (mean, sigma, line) with sigma >= 0 the
\* OVER and the UNDER fair probability of the same forecast and line sum to
\* 1, also in the degenerate branch when the mean equals the line
C27_OverUnderSumToOne ==
    callRet.done => callRet.value.over + callRet.value.under = ProbOne

\* C27 amended: the OVER and the UNDER fair probability sum to 1, except
\* in the degenerate branch when the mean equals the line, where both are 0
C27_SumToOneExceptTie ==
    callRet.done =>
       IF callArg.sigma = 0 /\ callArg.mean = callArg.line
       THEN callRet.value.over = 0 /\ callRet.value.under = 0
       ELSE callRet.value.over + callRet.value.under = ProbOne

\* both probabilities computed for a forecast without spread whose mean is
\* the line
C27_Witness ==
    /\ callFn = "_normal_prob"
    /\ callRet.done
    /\ callArg.sigma = 0
    /\ callArg.mean = callArg.line

----------------------------------------------------------------------------
(* Claims about the retry loops of the providers, SpecHttp, SpecHttpLive.  *)

\* the responses before the last one: each was followed by a request
Followed == {httpLog[i] : i \in 1..(Len(httpLog) - 1)}

\* C28: BrefProvider._get issues at most max_retries requests and returns
\* the first response with status 200; it retries only after a status 429,
\* 500, 502, 503 or 504 or after a transport exception; any other non-200
\* status is raised at once with no further request; it raises when all
\* attempts fail
C28_BrefRetriesOnlyRetryable ==
    provider = "bref" =>
       /\ Len(httpLog) <= maxRetries
       /\ Followed \subseteq {429, 500, 502, 503, 504, Transport}
       /\ httpPc = "returned" <=> (httpLog # <<>> /\ httpLog[Len(httpLog)] = 200)
       /\ httpPc = "raised" => httpOut.kind # "returned"
       /\ (Len(httpLog) = maxRetries /\ 200 \notin {httpLog[i] : i \in 1..Len(httpLog)})
             => httpPc # "returned"

\* the statuses in the log of a fetch
Logged == {httpLog[i] : i \in 1..Len(httpLog)}

\* what holds of JsonApiProvider.fetch_boxscores in every state
JsonBounded ==
    provider = "json" =>
       /\ Len(httpLog) <= 4
       /\ Followed \subseteq {429, 500, 502, 503, 504}
       /\ httpOut.kind = "returned" <=> (httpLog # <<>> /\ httpLog[Len(httpLog)] = 200)
       /\ httpOut.kind = "SystemExit" <=>
             (httpLog # <<>>
              /\ httpLog[Len(httpLog)] \notin {200, 429, 500, 502, 503, 504, Transport})
       /\ httpOut.kind = "exhausted retries" =>
             (Len(httpLog) = 4 /\ Logged \subseteq {429, 500, 502, 503, 504})
       /\ (httpPc = "loop" /\ Len(httpLog) = 4) => ENABLED JsonExhausted

====
